---- MODULE Spec2Model ----
(***************************************************************************)
(* Authentication, session and risk-control core of the dormaxis backend.  *)
(*                                                                         *)
(* Time.  Every timeout of the program is a whole number of 5-minute       *)
(* slots, so the clock is the pair <<now, sec>>: now counts 5-minute slots *)
(* and sec counts the clock seconds that have passed inside the current    *)
(* slot.  A timestamp is such a pair; pairs are compared                   *)
(* lexicographically, which is the comparison of the underlying Date       *)
(* values.                                                                 *)
(***************************************************************************)
EXTENDS Integers, Sequences, FiniteSets, TLC

\* ------------------------------------------------------------ constants
\* SESSION_CONFIG.idleTimeout: 15 minutes, in 5-minute slots
idleTimeout == 3
\* SESSION_CONFIG.maxSession and the session JWT's expiresIn '8h', in slots
maxSession == 96
\* SESSION_CONFIG.maxConcurrentSessions
maxConcurrentSessions == 3
\* incrementLoginAttempts: LOCK_TIME 30 minutes, in slots
LOCK_TIME == 6
\* incrementLoginAttempts: MAX_ATTEMPTS
MAX_ATTEMPTS == 5
\* login: the challenge JWT's expiresIn '5m', in slots
mfaTokenTtl == 1
\* generateBackupCodes: number of codes issued
backupCodeCount == 10
\* loginLimiter: windowMs 15 minutes, in slots
loginWindow == 3
\* passwordPolicy.minLength, passwordPolicy.maxLength
minLength == 12
maxLength == 128
\* validatePasswordComplexity: the length that earns the bonus
bonusLength == 16
\* the clock's slots in a day; passwordPolicy.expiryDays and warningDays
slotsPerDay == 288
expiryDays == 90
warningDays == 14
\* forgotPassword: the reset code lives 15 minutes, in slots
resetCodeTtl == 3
\* verifyResetCode: the reset token lives 10 minutes, in slots
resetTokenTtl == 2
\* express-rate-limit's max when the option passed is undefined
defaultMax == 5

\* ------------------------------------------------------------ bounds
\* last second enumerated inside one slot
MaxSec == 1
\* session store: last slot the clock reaches, session tokens issued
SessHorizon == 4
MaxSessions == 5
\* MFA: last slot the clock reaches, session tokens issued, backup codes of a
\* set that are typed
MfaHorizon == 2
MaxMfaSessions == 2
MaxTyped == 1
\* lockout: last slot the clock reaches, session tokens issued
LockHorizon == 7
MaxLockSessions == 1
\* absolute timeout: last slot the clock reaches, last slot a login is made in
AbsHorizon == 98
AbsLoginBy == 0
\* TOTP secrets generated over a run
MaxSecrets == 2
\* backup-code sets generated over a run
MaxCodeSets == 2
\* concurrent session creation: last slot the clock reaches, session tokens issued
RaceHorizon == 1
MaxRaceSessions == 4
\* concurrent wrong passwords: last slot the clock reaches
LoginRaceHorizon == 1
\* IP gate: last slot the clock reaches, session tokens issued
GateHorizon == 3
MaxGateSessions == 1
MaxGateHits == 11
\* password reset: last slot the clock reaches, codes and tokens drawn, passwords set
ResetHorizon == 4
MaxResetCodes == 2
MaxResetTokens == 1
MaxPasswords == 1
\* audit log: last slot the clock reaches, session tokens issued, names, records
AuditHorizon == 1
ExpiryHorizon == 1
DeleteHorizon == 1
LockedIssueHorizon == 1
MaxLockedIssueSessions == 2
PwChangeHorizon == 1
MaxPwChangeSessions == 2
MaxBackupRaceSessions == 3
BackupRaceHorizon == 1
MaxDeleteSessions == 3
MaxExpirySessions == 2
MaxAuditSessions == 1
MaxNames == 2
MaxAuditLogs == 2
\* overlapping regeneration: session tokens issued
MaxRegenSessions == 3
\* revocation: last slot the clock reaches, session tokens issued
RevokeHorizon == 1
MaxRevokeSessions == 3
\* challenge tokens: last slot the clock reaches, session tokens issued
ChallengeHorizon == 1
MaxChallengeSessions == 2

Users == {"u1", "u2"}
\* the requests the server can have in flight at once
Workers == {"w1", "w2"}
None == "none"
\* a timestamp field that is not set
Never == <<0 - 1, 0>>
\* no JWT
NoToken == [type |-> "none", id |-> None, iat |-> Never]

VARIABLES
    now,        \* clock: current 5-minute slot
    sec,        \* clock: second inside the slot
    users,      \* User collection: identity -> document
    sessions,   \* Session collection: set of rows
    held,       \* session JWTs handed to clients so far
    tempToken,  \* identity -> the MFA challenge JWT its client holds, or NoToken
    secrets,    \* number of TOTP secrets generated so far
    codeSets,   \* number of backup-code sets generated so far
    resp,       \* the last request and its response
    inflight,   \* worker -> the request it is in the middle of handling
    ipGuard,    \* rateLimiter: blocked[ip] = block-until, hits[ip] = the login window
    auditLog,   \* AuditLog collection: the sequence of records written
    accepted    \* history: the JWTs a successful verifyMFA or useBackupCode accepted

vars ==
    <<now, sec, users, sessions, held, tempToken, secrets, codeSets, resp, inflight,
      ipGuard, auditLog, accepted>>

\* ------------------------------------------------------------ time
Clock == <<now, sec>>
\* a > b on timestamps
Later(a, b) == a[1] > b[1] \/ (a[1] = b[1] /\ a[2] > b[2])
\* timestamp a moved by d slots
Shift(a, d) == <<a[1] + d, a[2]>>

\* ------------------------------------------------------------ JWTs
\* jwt.sign({id}, secret, {expiresIn:'8h'}): the payload is {id, iat, exp}, iat in
\* whole seconds, and the signature is a function of the payload
generateToken(u) == [type |-> "session", id |-> u, iat |-> Clock]
\* jwt.sign({id, type:'mfa_pending'}, secret, {expiresIn:'5m'})
signMfaToken(u) == [type |-> "mfa_pending", id |-> u, iat |-> Clock]
jwtExp(tok) == Shift(tok.iat, IF tok.type = "session" THEN maxSession ELSE mfaTokenTtl)
\* jwt.verify: throws TokenExpiredError when clockTimestamp >= exp
jwtVerify(tok) == Later(jwtExp(tok), Clock)

\* ------------------------------------------------------------ Session model
\* isExpired without its idle test
isExpired_noIdle(s) == Later(Clock, s.expiresAt)

\* sessionSchema.methods.isExpired
isExpired(s) ==
    LET idleExpired == Later(Clock, Shift(s.lastActivity, idleTimeout))
        maxExpired == Later(Clock, s.expiresAt)
    IN idleExpired \/ maxExpired

\* the rows getActiveSessionCount's query matches
ActiveRows(S, u) ==
    {s \in S : /\ s.userId = u
               /\ Later(s.lastActivity, Shift(Clock, 0 - idleTimeout))
               /\ Later(s.expiresAt, Clock)}

\* sessionSchema.statics.getActiveSessionCount
getActiveSessionCount(S, u) == Cardinality(ActiveRows(S, u))

\* the row findOne({userId}).sort({createdAt: 1}) returns (rows of S for u exist)
OldestRow(S, u) ==
    CHOOSE s \in S : /\ s.userId = u
                     /\ \A t \in S : t.userId = u => ~Later(s.createdAt, t.createdAt)

\* sessionSchema.statics.removeOldestSession
removeOldestSession(S, u) ==
    IF \E s \in S : s.userId = u THEN S \ {OldestRow(S, u)} ELSE S

\* touch that also moves the absolute expiry forward
touch_sliding(S, tok) ==
    {IF s.token = tok
     THEN [s EXCEPT !.lastActivity = Clock, !.expiresAt = Shift(Clock, maxSession)]
     ELSE s : s \in S}

\* sessionSchema.methods.touch
touch(S, tok) ==
    {IF s.token = tok THEN [s EXCEPT !.lastActivity = Clock] ELSE s : s \in S}

\* the document Session.create builds in createSession for a token signed earlier
RowFor(u, tok) ==
    [userId |-> u, token |-> tok, createdAt |-> Clock,
     lastActivity |-> Clock, expiresAt |-> Shift(Clock, maxSession)]

\* the document of a createSession that runs without interruption
NewRow(u) == RowFor(u, generateToken(u))

\* createSession up to the insert: the store after the cap check
AfterCapCheck(S, u) ==
    IF getActiveSessionCount(S, u) >= maxConcurrentSessions
    THEN removeOldestSession(S, u) ELSE S

\* Session.create succeeds unless the unique index on token rejects the row
InsertOk(S, u) == \A s \in S : s.token # generateToken(u)

\* createSession: whether it returns (TRUE) or throws on the insert (FALSE)
createSessionOk(S, u) == InsertOk(AfterCapCheck(S, u), u)

\* createSession: the Session collection it leaves
createSession(S, u) ==
    IF createSessionOk(S, u)
    THEN AfterCapCheck(S, u) \cup {NewRow(u)}
    ELSE AfterCapCheck(S, u)

\* ------------------------------------------------------------ e-mail service
\* module.exports of utils/emailService
emailServiceExports == {"sendPasswordResetCode", "sendPasswordChangeConfirmation"}

\* what transporter.sendMail (or createTransporter) does for one message
MailOutcomes == {"sent", "failed"}

\* the statement fn(...).catch(console.error) in a handler's try block: a name the
\* service does not export is undefined where it was imported, and calling it
\* raises a TypeError into the handler's catch; an exported function is async, so
\* every failure of it is a rejection that .catch swallows
fireAndForgetThrows(fn) == fn \notin emailServiceExports

\* the status a handler answers after its save and its fire-and-forget e-mail
statusAfterNotify(fn) == IF fireAndForgetThrows(fn) THEN 500 ELSE 200

\* ------------------------------------------------------------ bcrypt
\* a field that holds no hash
NoHash == <<"none", "none", 0>>
\* bcrypt.hash of a secret <<kind, n>>
bcryptHash(plain) == <<"bcrypt", plain[1], plain[2]>>
\* bcrypt.compare(plain, hashed)
bcryptCompare(plain, hashed) == hashed = bcryptHash(plain)

\* ------------------------------------------------------------ User model
\* virtual isLocked / the lock test of login
IsLocked(usr) == usr.lockedUntil # Never /\ Later(usr.lockedUntil, Clock)

\* incrementLoginAttempts locking one failure late (> for >=)
incrementLoginAttempts_late(usr) ==
    IF usr.lockedUntil # Never /\ Later(Clock, usr.lockedUntil)
    THEN [usr EXCEPT !.count = 1, !.lastAttempt = Clock, !.lockedUntil = Never]
    ELSE [usr EXCEPT !.count = @ + 1, !.lastAttempt = Clock,
                     !.lockedUntil = IF usr.count + 1 > MAX_ATTEMPTS
                                     THEN Shift(Clock, LOCK_TIME) ELSE @]

\* userSchema.methods.incrementLoginAttempts
incrementLoginAttempts(usr) ==
    IF usr.lockedUntil # Never /\ Later(Clock, usr.lockedUntil)
    THEN [usr EXCEPT !.count = 1, !.lastAttempt = Clock, !.lockedUntil = Never]
    ELSE [usr EXCEPT !.count = @ + 1, !.lastAttempt = Clock,
                     !.lockedUntil = IF usr.count + 1 >= MAX_ATTEMPTS
                                     THEN Shift(Clock, LOCK_TIME) ELSE @]

\* resetLoginAttempts leaving the lock in place
resetLoginAttempts_keepLock(usr) ==
    [usr EXCEPT !.count = 0, !.lastLogin = Clock]

\* userSchema.methods.resetLoginAttempts
resetLoginAttempts(usr) ==
    [usr EXCEPT !.count = 0, !.lastLogin = Clock, !.lockedUntil = Never]

\* the backup codes generateBackupCodes returns for the k-th set, stored hashed
generateBackupCodes(k) ==
    [i \in 1..backupCodeCount |-> [code |-> <<k, i, "upper">>, used |-> FALSE]]

InitUser ==
    [isActive |-> TRUE, count |-> 0, lastAttempt |-> Never, lockedUntil |-> Never,
     lastLogin |-> Never, googleId |-> FALSE,
     mfaEnabled |-> FALSE, mfaSecret |-> 0, mfaBackupCodes |-> <<>>,
     password |-> 0, passwordResetCode |-> NoHash, passwordResetExpires |-> Never,
     name |-> 0, version |-> 0, passwordExpiresAt |-> Never, exists |-> TRUE]

\* ------------------------------------------------------------ password expiry
\* Math.ceil(diffTime / day) for the time from the clock to instant e: whole days,
\* rounded up, the seconds within a slot being shorter than any slot
ceilDays(e) ==
    LET d == e[1] - now
        s == e[2] - sec
    IN IF d % slotsPerDay # 0 THEN (d \div slotsPerDay) + 1
       ELSE IF s > 0 THEN (d \div slotsPerDay) + 1 ELSE d \div slotsPerDay

\* passwordValidator.isPasswordExpired; e: user.passwordExpiresAt, Never when unset
isPasswordExpired(e) ==
    IF e = Never
    THEN [isExpired |-> FALSE, daysUntilExpiry |-> 0, shouldWarn |-> FALSE]
    ELSE [isExpired |-> ceilDays(e) <= 0,
          daysUntilExpiry |-> IF ceilDays(e) > 0 THEN ceilDays(e) ELSE 0,
          shouldWarn |-> ceilDays(e) > 0 /\ ceilDays(e) <= warningDays]

\* passwordValidator.calculatePasswordExpiry
calculatePasswordExpiry == Shift(Clock, expiryDays * slotsPerDay)

\* login: the advisory fields of the success response; passwordExpiryWarning is
\* the days left, 0 when the field is absent
loginAdvisory(usr) ==
    LET expiryStatus == isPasswordExpired(usr.passwordExpiresAt) IN
    [passwordExpired |-> expiryStatus.isExpired,
     passwordExpiryWarning |-> IF ~expiryStatus.isExpired /\ expiryStatus.shouldWarn
                               THEN expiryStatus.daysUntilExpiry ELSE 0]

\* ------------------------------------------------------------ responses
\* op: the handler; user: the identity addressed; status: the HTTP status; body:
\* the JSON body where a claim is about it;
\* token: the JWT the response carries; cred: the JWT the request presented;
\* arg: the request's other input; cleared: the session cookie was cleared
Resp(op, u, status, tok, cred, arg, cleared) ==
    [op |-> op, user |-> u, status |-> status, token |-> tok, cred |-> cred,
     arg |-> arg, cleared |-> cleared, body |-> None, ip |-> None]

\* a response whose JSON body matters: body is its content
WithBody(r, body) == [r EXCEPT !.body = body]

\* a response to a request whose client address matters: ip is req.ip
From(ip, r) == [r EXCEPT !.ip = ip]

\* the client addresses requests come from
IPs == {"ip1", "ip2"}

\* rateLimiter at start-up: blockedIPs is empty, the limiter's store has no key
InitGuard ==
    [blocked |-> [ip \in IPs |-> Never],
     hits |-> [ip \in IPs |-> [count |-> 0, resetAt |-> Never]]]

\* a worker between requests
\* a request that carries no backup code
NoTyped == <<0, 0, "none">>

IdleReq ==
    [pc |-> "idle", snap |-> InitUser, token |-> NoToken, oldest |-> NoToken,
     typed |-> NoTyped]

Init ==
    /\ now = 0
    /\ sec = 0
    /\ users = [u \in Users |-> InitUser]
    /\ sessions = {}
    /\ held = {}
    /\ tempToken = [u \in Users |-> NoToken]
    /\ secrets = 0
    /\ codeSets = 0
    /\ resp = Resp("init", None, 0, NoToken, NoToken, None, FALSE)
    /\ inflight = [w \in Workers |-> IdleReq]
    /\ ipGuard = InitGuard
    /\ auditLog = <<>>
    /\ accepted = {}

\* ------------------------------------------------------------ clock steps
Tick ==
    /\ now' = now + 1
    /\ sec' = 0
    /\ resp' = Resp("tick", None, 0, NoToken, NoToken, None, FALSE)
    /\ UNCHANGED <<users, sessions, held, tempToken, secrets, codeSets, inflight, ipGuard, auditLog, accepted>>

TickSec ==
    /\ sec < MaxSec
    /\ sec' = sec + 1
    /\ resp' = Resp("tick", None, 0, NoToken, NoToken, None, FALSE)
    /\ UNCHANGED <<now, users, sessions, held, tempToken, secrets, codeSets, inflight, ipGuard, auditLog, accepted>>

\* ------------------------------------------------------------ login
\* login leaving out its MFA branch
mfaRequired_never(usr) == FALSE

\* login: if (user.mfaEnabled), the branch that answers with a challenge
mfaRequired(usr) == usr.mfaEnabled

\* the e-mail of a login request that matches no identity
NoUser == "nobody"

\* login: the body of the 401 answered to a wrong password; the warning counts the
\* attempts left, from the counter as read before the increment
wrongPasswordBody(usr) ==
    LET attemptsLeft == MAX_ATTEMPTS - (usr.count + 1) IN
    [error |-> "Invalid credentials",
     warning |-> IF attemptsLeft > 0 /\ attemptsLeft <= 3 THEN attemptsLeft ELSE 0]

\* login: the body of the 401 answered when no identity has the e-mail
unknownEmailBody == [error |-> "Invalid credentials", warning |-> 0]

\* the login handler for a request from address ip with the e-mail of identity u,
\* or of nobody (NoUser); pwOk: bcrypt.compare's result; everything but the frame
\* of the rate limiter's state
loginEffects(ip, u, pwOk) ==
    LET usr == users[u] IN
    /\ UNCHANGED <<now, sec, secrets, codeSets, inflight, auditLog, accepted>>
    /\ IF u \notin Users \/ ~users[u].exists
       THEN /\ resp' = From(ip, WithBody(Resp("login", u, 401, NoToken, NoToken, pwOk, FALSE),
                                unknownEmailBody))
            /\ UNCHANGED <<users, sessions, held, tempToken>>
       ELSE IF IsLocked(usr)
       THEN /\ resp' = From(ip, Resp("login", u, 423, NoToken, NoToken, pwOk, FALSE))
            /\ UNCHANGED <<users, sessions, held, tempToken>>
       ELSE IF ~usr.isActive
       THEN /\ resp' = From(ip, Resp("login", u, 401, NoToken, NoToken, pwOk, FALSE))
            /\ UNCHANGED <<users, sessions, held, tempToken>>
       ELSE IF ~pwOk
       THEN /\ users' = [users EXCEPT ![u] = incrementLoginAttempts(usr)]
            /\ resp' = From(ip, WithBody(Resp("login", u, 401, NoToken, NoToken, pwOk, FALSE),
                                wrongPasswordBody(usr)))
            /\ UNCHANGED <<sessions, held, tempToken>>
       ELSE IF mfaRequired(usr)
       THEN /\ users' = [users EXCEPT ![u] = resetLoginAttempts(usr)]
            /\ tempToken' = [tempToken EXCEPT ![u] = signMfaToken(u)]
            /\ resp' = From(ip, Resp("login", u, 200, signMfaToken(u), NoToken, pwOk, FALSE))
            /\ UNCHANGED <<sessions, held>>
       ELSE /\ users' = [users EXCEPT ![u] = resetLoginAttempts(usr)]
            /\ sessions' = createSession(sessions, u)
            /\ UNCHANGED tempToken
            /\ IF createSessionOk(sessions, u)
               THEN /\ held' = held \cup {generateToken(u)}
                    /\ resp' = From(ip, WithBody(Resp("login", u, 200, generateToken(u),
                                                      NoToken, pwOk, FALSE),
                                                 loginAdvisory(usr)))
               ELSE /\ held' = held
                    /\ resp' = From(ip, Resp("login", u, 500, NoToken, NoToken, pwOk, FALSE))

\* POST /api/auth/login reaching the login handler
login(u, pwOk) == loginEffects(None, u, pwOk) /\ UNCHANGED ipGuard

\* ------------------------------------------------------------ IP gate
\* an instant that is not a number: NaN > t and NaN <= t are both false
NaN == <<0 - 2, 0>>

\* isIPBlocked: its result, blocked.until > Date.now()
isIPBlocked(G, ip) ==
    /\ G.blocked[ip] # Never
    /\ G.blocked[ip] # NaN
    /\ Later(G.blocked[ip], Clock)

\* isIPBlocked: blockedIPs after the call, an entry with until <= Date.now() being
\* deleted
afterIsIPBlocked(G, ip) ==
    IF G.blocked[ip] # Never /\ G.blocked[ip] # NaN /\ ~Later(G.blocked[ip], Clock)
    THEN [G EXCEPT !.blocked[ip] = Never] ELSE G

\* blockIP: until is Date.now() + durationMs, and durationMs is
\* securityConfig.rateLimit.ipBlockDuration, a key the security configuration does
\* not define: a number plus undefined
blockIP(G, ip) == [G EXCEPT !.blocked[ip] = NaN]

\* loginLimiter: max is securityConfig.rateLimit.ipBlockThreshold, a key the
\* security configuration does not define: the library's default applies
loginLimiterMax == defaultMax

\* express-rate-limit: the request is over the limit when its hit count exceeds max
limiterExceeded(count) == count > loginLimiterMax

\* express-rate-limit's store: the key's window after one more hit; a window that
\* has elapsed starts again at 1
limiterHit(G, ip) ==
    LET h == G.hits[ip] IN
    [G EXCEPT !.hits[ip] =
        IF h.count = 0 \/ ~Later(h.resetAt, Clock)
        THEN [count |-> 1, resetAt |-> Shift(Clock, loginWindow)]
        ELSE [h EXCEPT !.count = @ + 1]]

\* the answer of ipBlockingMiddleware to a blocked address
blockedResp(op, ip, u, arg) ==
    From(ip, WithBody(Resp(op, u, 429, NoToken, NoToken, arg, FALSE), "ip block"))

\* POST /api/auth/login letting the handler run for a request over the limit
postLogin_handlerRuns(ip, u, pwOk) ==
    IF isIPBlocked(ipGuard, ip)
    THEN /\ resp' = blockedResp("login", ip, u, pwOk)
         /\ UNCHANGED <<now, sec, users, sessions, held, tempToken, secrets, codeSets,
                        inflight, ipGuard, auditLog, accepted>>
    ELSE LET G == limiterHit(afterIsIPBlocked(ipGuard, ip), ip) IN
         /\ ipGuard' = IF limiterExceeded(G.hits[ip].count) THEN blockIP(G, ip) ELSE G
         /\ loginEffects(ip, u, pwOk)

\* POST /api/auth/login from address ip: ipBlockingMiddleware, then loginLimiter,
\* then the login handler
postLogin(ip, u, pwOk) ==
    IF isIPBlocked(ipGuard, ip)
    THEN /\ resp' = blockedResp("login", ip, u, pwOk)
         /\ UNCHANGED <<now, sec, users, sessions, held, tempToken, secrets, codeSets,
                        inflight, ipGuard, auditLog, accepted>>
    ELSE LET G == limiterHit(afterIsIPBlocked(ipGuard, ip), ip) IN
         IF limiterExceeded(G.hits[ip].count)
         THEN /\ ipGuard' = blockIP(G, ip)
              /\ resp' = From(ip, WithBody(Resp("login", u, 429, NoToken, NoToken, pwOk,
                                                 FALSE), "limiter"))
              /\ UNCHANGED <<now, sec, users, sessions, held, tempToken, secrets,
                             codeSets, inflight, auditLog, accepted>>
         ELSE /\ ipGuard' = G
              /\ loginEffects(ip, u, pwOk)

\* GET /health from address ip: ipBlockingMiddleware, then a handler without state
getHealth(ip) ==
    /\ IF isIPBlocked(ipGuard, ip)
       THEN /\ resp' = blockedResp("health", ip, None, None)
            /\ UNCHANGED ipGuard
       ELSE /\ resp' = From(ip, Resp("health", None, 200, NoToken, NoToken, None, FALSE))
            /\ ipGuard' = afterIsIPBlocked(ipGuard, ip)
    /\ UNCHANGED <<now, sec, users, sessions, held, tempToken, secrets, codeSets,
                   inflight, auditLog, accepted>>

\* ------------------------------------------------------------ protect
\* the JWTs a client can present: those it was handed
Presentable == held \cup ({tempToken[u] : u \in Users} \ {NoToken})

\* the row Session.findOne({token, userId: decoded.id}) returns, as a set
FindSession(S, tok) == {s \in S : s.token = tok /\ s.userId = tok.id}

\* protect calls next(): the request reaches its handler
ProtectAdmits(tok) ==
    /\ jwtVerify(tok)
    /\ \E s \in FindSession(sessions, tok) : ~isExpired(s)
    /\ users[tok.id].exists
    /\ users[tok.id].isActive

\* protect in front of a handler that changes nothing (GET /api/auth/profile)
protect(tok) ==
    /\ UNCHANGED <<now, sec, users, held, tempToken, secrets, codeSets, inflight, ipGuard, auditLog, accepted>>
    /\ IF ~jwtVerify(tok)
       THEN /\ resp' = Resp("protect", tok.id, 401, NoToken, tok, "token invalid", TRUE)
            /\ UNCHANGED sessions
       ELSE IF FindSession(sessions, tok) = {}
       THEN /\ resp' = Resp("protect", tok.id, 401, NoToken, tok, "no session", TRUE)
            /\ UNCHANGED sessions
       ELSE IF \E s \in FindSession(sessions, tok) : isExpired(s)
       THEN /\ sessions' = sessions \ FindSession(sessions, tok)
            /\ resp' = Resp("protect", tok.id, 401, NoToken, tok, "expired", TRUE)
       ELSE /\ sessions' = touch(sessions, tok)
            /\ IF ~users[tok.id].exists
               THEN resp' = Resp("protect", tok.id, 401, NoToken, tok, "user not found", FALSE)
               ELSE IF users[tok.id].isActive
               THEN resp' = Resp("protect", tok.id, 200, NoToken, tok, "next", FALSE)
               ELSE resp' = Resp("protect", tok.id, 401, NoToken, tok, "deactivated", FALSE)

\* ------------------------------------------------------------ session exits
\* logout deleting every session of the token's identity
logout_all(tok) ==
    /\ sessions' = {s \in sessions : s.userId # tok.id}
    /\ resp' = Resp("logout", tok.id, 200, NoToken, tok, None, TRUE)
    /\ UNCHANGED <<now, sec, users, held, tempToken, secrets, codeSets, inflight, ipGuard, auditLog, accepted>>

\* a token the server never issued, as a client can put in the cookie or header
UnknownToken == [type |-> "session", id |-> "u2", iat |-> <<0, 0>>]

\* the tokens a logout request can carry: one handed out, an unknown one, none
LogoutTokens == Presentable \cup {UnknownToken, NoToken}

\* POST /api/auth/logout -> clearSession(res, token): Session.deleteOne({token})
\* when a token is present
logout(tok) ==
    /\ sessions' = {s \in sessions : s.token # tok}
    /\ resp' = Resp("logout", tok.id, 200, NoToken, tok, None, TRUE)
    /\ UNCHANGED <<now, sec, users, held, tempToken, secrets, codeSets, inflight, ipGuard, auditLog, accepted>>

\* a lookup by session id alone
findOwnSession_anyOwner(S, u, target) == {s \in S : s.token = target}

\* Session.findOne({_id: sessionId, userId}), as a set; a row is named by its token
findOwnSession(S, u, target) == {s \in S : s.token = target /\ s.userId = u}

\* DELETE /api/auth/sessions/:sessionId behind protect; target names the row by
\* its token (the row's _id)
revokeSession(tok, target) ==
    /\ ProtectAdmits(tok)
    /\ LET S == touch(sessions, tok)
           found == findOwnSession(S, tok.id, target)
       IN IF found = {}
          THEN /\ sessions' = S
               /\ resp' = Resp("revokeSession", tok.id, 404, NoToken, tok, target, FALSE)
          ELSE /\ sessions' = S \ found
               /\ resp' = Resp("revokeSession", tok.id, 200, NoToken, tok, target, FALSE)
    /\ UNCHANGED <<now, sec, users, held, tempToken, secrets, codeSets, inflight, ipGuard, auditLog, accepted>>

\* DELETE /api/auth/sessions behind protect: Session.deleteMany({userId})
revokeAllSessions(tok) ==
    /\ ProtectAdmits(tok)
    /\ sessions' = {s \in sessions : s.userId # tok.id}
    /\ resp' = Resp("revokeAllSessions", tok.id, 200, NoToken, tok, None, FALSE)
    /\ UNCHANGED <<now, sec, users, held, tempToken, secrets, codeSets, inflight, ipGuard, auditLog, accepted>>

\* the rows Session.deleteMany({ user: userId }) removes; the session schema has
\* no path user (its owner is userId): with strictQuery on, Mongoose strips the
\* path and the filter matches every row, with strictQuery off the filter goes to
\* the database as written and matches none
deleteManyByUser(S, u, strictQuery) == IF strictQuery THEN S ELSE {}

\* DELETE /api/auth/account behind protect; pwOk: the password was sent and
\* bcrypt.compare accepted it; strictQuery: the Mongoose setting in force
deleteAccount(tok, pwOk, strictQuery) ==
    LET u == tok.id
        S == touch(sessions, tok)
    IN
    /\ ProtectAdmits(tok)
    /\ UNCHANGED <<now, sec, held, tempToken, secrets, codeSets, inflight, ipGuard,
                   auditLog, accepted>>
    /\ IF ~users[u].googleId /\ ~pwOk
       THEN /\ sessions' = S
            /\ resp' = Resp("deleteAccount", u, 401, NoToken, tok, pwOk, FALSE)
            /\ UNCHANGED users
       ELSE /\ sessions' = S \ deleteManyByUser(S, u, strictQuery)
            /\ users' = [users EXCEPT ![u].exists = FALSE]
            /\ resp' = Resp("deleteAccount", u, 200, NoToken, tok, pwOk, TRUE)

\* the TTL index on expiresAt (expireAfterSeconds: 0): the database removes rows
\* whose expiresAt has passed, at a time of its choosing
ttlMonitor ==
    /\ \E s \in sessions : Later(Clock, s.expiresAt)
    /\ sessions' = {s \in sessions : ~Later(Clock, s.expiresAt)}
    /\ resp' = Resp("ttl", None, 0, NoToken, NoToken, None, FALSE)
    /\ UNCHANGED <<now, sec, users, held, tempToken, secrets, codeSets, inflight, ipGuard, auditLog, accepted>>

\* ------------------------------------------------------------ Google sign-in
\* the part googleLogin and googleCallback share, for a Google account whose
\* e-mail is identity u's; op names the handler, failed its catch status
GoogleSignIn(op, u, failed) ==
    LET usr == [users[u] EXCEPT !.googleId = TRUE] IN
    /\ UNCHANGED <<now, sec, tempToken, secrets, codeSets, inflight, ipGuard, auditLog, accepted>>
    /\ IF IsLocked(usr)
       THEN /\ users' = [users EXCEPT ![u] = usr]
            /\ resp' = Resp(op, u, 423, NoToken, NoToken, None, FALSE)
            /\ UNCHANGED <<sessions, held>>
       ELSE IF ~usr.isActive
       THEN /\ users' = [users EXCEPT ![u] = usr]
            /\ resp' = Resp(op, u, 401, NoToken, NoToken, None, FALSE)
            /\ UNCHANGED <<sessions, held>>
       ELSE /\ users' = [users EXCEPT ![u] = [usr EXCEPT !.lastLogin = Clock]]
            /\ sessions' = createSession(sessions, u)
            /\ IF createSessionOk(sessions, u)
               THEN /\ held' = held \cup {generateToken(u)}
                    /\ resp' = Resp(op, u, 200, generateToken(u), NoToken, None, FALSE)
               ELSE /\ held' = held
                    /\ resp' = Resp(op, u, failed, NoToken, NoToken, None, FALSE)

\* POST /api/auth/google with a valid Google ID token
googleLogin(u) == GoogleSignIn("googleLogin", u, 401)

\* POST /api/auth/google/callback with a code Google exchanges for an ID token
googleCallback(u) == GoogleSignIn("googleCallback", u, 500)

\* ------------------------------------------------------------ MFA
\* a one-time code as typed: 0 is a wrong code, k > 0 the current TOTP of the
\* k-th secret; speakeasy.totp.verify against the stored secret
totpVerify(usr, code) == usr.mfaSecret # 0 /\ code = usr.mfaSecret

\* POST /api/mfa/setup behind protect
setupMFA(tok) ==
    LET u == tok.id IN
    /\ ProtectAdmits(tok)
    /\ sessions' = touch(sessions, tok)
    /\ UNCHANGED <<now, sec, held, tempToken, codeSets, inflight, ipGuard, auditLog, accepted>>
    /\ IF users[u].mfaEnabled
       THEN /\ resp' = Resp("setupMFA", u, 400, NoToken, tok, None, FALSE)
            /\ UNCHANGED <<users, secrets>>
       ELSE /\ secrets' = secrets + 1
            /\ users' = [users EXCEPT ![u].mfaSecret = secrets + 1]
            /\ resp' = Resp("setupMFA", u, 200, NoToken, tok, None, FALSE)

\* POST /api/mfa/verify-setup behind protect
verifySetup(tok, code) ==
    LET u == tok.id IN
    /\ ProtectAdmits(tok)
    /\ sessions' = touch(sessions, tok)
    /\ UNCHANGED <<now, sec, held, tempToken, secrets, inflight, ipGuard, auditLog, accepted>>
    /\ IF users[u].mfaSecret = 0 \/ ~totpVerify(users[u], code)
       THEN /\ resp' = Resp("verifySetup", u, 400, NoToken, tok, code, FALSE)
            /\ UNCHANGED <<users, codeSets>>
       ELSE /\ codeSets' = codeSets + 1
            /\ users' = [users EXCEPT ![u].mfaEnabled = TRUE,
                                      ![u].mfaBackupCodes = generateBackupCodes(codeSets + 1),
                                      ![u].version = @ + 1]
            /\ resp' = IF fireAndForgetThrows("sendMFAEnabledConfirmation")
                       THEN Resp("verifySetup", u, 500, NoToken, tok, code, FALSE)
                       ELSE WithBody(Resp("verifySetup", u, 200, NoToken, tok, code, FALSE),
                                     <<"backupCodes", codeSets + 1>>)

\* verifyMFA counting a wrong one-time code as a failed login attempt
verifyMFA_countsFailure(tok, code) ==
    LET u == tok.id IN
    /\ UNCHANGED <<now, sec, tempToken, secrets, codeSets, inflight, ipGuard, auditLog>>
    /\ IF ~jwtVerify(tok)
       THEN /\ resp' = Resp("verifyMFA", u, 401, NoToken, tok, code, FALSE)
            /\ UNCHANGED <<users, sessions, held, accepted>>
       ELSE IF ~users[u].mfaEnabled
       THEN /\ resp' = Resp("verifyMFA", u, 400, NoToken, tok, code, FALSE)
            /\ UNCHANGED <<users, sessions, held, accepted>>
       ELSE IF ~totpVerify(users[u], code)
       THEN /\ resp' = Resp("verifyMFA", u, 401, NoToken, tok, code, FALSE)
            /\ users' = [users EXCEPT ![u] = incrementLoginAttempts(users[u])]
            /\ UNCHANGED <<sessions, held, accepted>>
       ELSE /\ sessions' = createSession(sessions, u)
            /\ UNCHANGED users
            /\ IF createSessionOk(sessions, u)
               THEN /\ held' = held \cup {generateToken(u)}
                    /\ accepted' = accepted \cup {tok}
                    /\ resp' = Resp("verifyMFA", u, 200, generateToken(u), tok, code, FALSE)
               ELSE /\ held' = held
                    /\ UNCHANGED accepted
                    /\ resp' = Resp("verifyMFA", u, 500, NoToken, tok, code, FALSE)

\* POST /api/mfa/verify: tempToken is any JWT the client holds
verifyMFA(tok, code) ==
    LET u == tok.id IN
    /\ UNCHANGED <<now, sec, users, tempToken, secrets, codeSets, inflight, ipGuard, auditLog>>
    /\ IF ~jwtVerify(tok)
       THEN /\ resp' = Resp("verifyMFA", u, 401, NoToken, tok, code, FALSE)
            /\ UNCHANGED <<sessions, held, accepted>>
       ELSE IF ~users[u].mfaEnabled
       THEN /\ resp' = Resp("verifyMFA", u, 400, NoToken, tok, code, FALSE)
            /\ UNCHANGED <<sessions, held, accepted>>
       ELSE IF ~totpVerify(users[u], code)
       THEN /\ resp' = Resp("verifyMFA", u, 401, NoToken, tok, code, FALSE)
            /\ UNCHANGED <<sessions, held, accepted>>
       ELSE /\ sessions' = createSession(sessions, u)
            /\ IF createSessionOk(sessions, u)
               THEN /\ held' = held \cup {generateToken(u)}
                    /\ accepted' = accepted \cup {tok}
                    /\ resp' = Resp("verifyMFA", u, 200, generateToken(u), tok, code, FALSE)
               ELSE /\ held' = held
                    /\ UNCHANGED accepted
                    /\ resp' = Resp("verifyMFA", u, 500, NoToken, tok, code, FALSE)

\* a backup code as typed: <<set, index, case>>; String.prototype.toUpperCase
toUpperCase(typed) == <<typed[1], typed[2], "upper">>

\* bcrypt.compare(backupCode.toUpperCase(), backup.code)
backupMatches(typed, backup) == toUpperCase(typed) = backup.code

\* the index the loop of useBackupCode stops at: the first unused match, or 0
firstUnusedMatch(codes, typed) ==
    LET hits == {i \in 1..Len(codes) : ~codes[i].used /\ backupMatches(typed, codes[i])}
    IN IF hits = {} THEN 0 ELSE CHOOSE i \in hits : \A j \in hits : i <= j

\* POST /api/mfa/use-backup
useBackupCode(tok, typed) ==
    LET u == tok.id
        i == firstUnusedMatch(users[u].mfaBackupCodes, typed)
    IN
    /\ UNCHANGED <<now, sec, tempToken, secrets, codeSets, inflight, ipGuard, auditLog>>
    /\ IF ~jwtVerify(tok)
       THEN /\ resp' = Resp("useBackupCode", u, 401, NoToken, tok, typed, FALSE)
            /\ UNCHANGED <<users, sessions, held, accepted>>
       ELSE IF ~users[u].mfaEnabled
       THEN /\ resp' = Resp("useBackupCode", u, 400, NoToken, tok, typed, FALSE)
            /\ UNCHANGED <<users, sessions, held, accepted>>
       ELSE IF i = 0
       THEN /\ resp' = Resp("useBackupCode", u, 401, NoToken, tok, typed, FALSE)
            /\ UNCHANGED <<users, sessions, held, accepted>>
       ELSE /\ users' = [users EXCEPT ![u].mfaBackupCodes[i].used = TRUE]
            /\ sessions' = createSession(sessions, u)
            /\ IF createSessionOk(sessions, u)
               THEN /\ held' = held \cup {generateToken(u)}
                    /\ accepted' = accepted \cup {tok}
                    /\ resp' = Resp("useBackupCode", u, 200, generateToken(u), tok, typed, FALSE)
               ELSE /\ held' = held
                    /\ UNCHANGED accepted
                    /\ resp' = Resp("useBackupCode", u, 500, NoToken, tok, typed, FALSE)

\* POST /api/mfa/disable behind protect
disableMFA(tok, pwOk) ==
    LET u == tok.id IN
    /\ ProtectAdmits(tok)
    /\ sessions' = touch(sessions, tok)
    /\ UNCHANGED <<now, sec, held, tempToken, secrets, codeSets, inflight, ipGuard, auditLog, accepted>>
    /\ IF ~users[u].mfaEnabled
       THEN /\ resp' = Resp("disableMFA", u, 400, NoToken, tok, pwOk, FALSE)
            /\ UNCHANGED users
       ELSE IF ~pwOk
       THEN /\ resp' = Resp("disableMFA", u, 401, NoToken, tok, pwOk, FALSE)
            /\ UNCHANGED users
       ELSE /\ users' = [users EXCEPT ![u].mfaEnabled = FALSE, ![u].mfaSecret = 0,
                                      ![u].mfaBackupCodes = <<>>, ![u].version = @ + 1]
            /\ resp' = Resp("disableMFA", u, statusAfterNotify("sendMFADisabledConfirmation"),
                            NoToken, tok, pwOk, FALSE)

\* POST /api/mfa/backup-codes behind protect
regenerateBackupCodes(tok, pwOk) ==
    LET u == tok.id IN
    /\ ProtectAdmits(tok)
    /\ sessions' = touch(sessions, tok)
    /\ UNCHANGED <<now, sec, held, tempToken, secrets, inflight, ipGuard, auditLog, accepted>>
    /\ IF ~users[u].mfaEnabled
       THEN /\ resp' = Resp("regenerateBackupCodes", u, 400, NoToken, tok, pwOk, FALSE)
            /\ UNCHANGED <<users, codeSets>>
       ELSE IF ~pwOk
       THEN /\ resp' = Resp("regenerateBackupCodes", u, 401, NoToken, tok, pwOk, FALSE)
            /\ UNCHANGED <<users, codeSets>>
       ELSE /\ codeSets' = codeSets + 1
            /\ users' = [users EXCEPT ![u].mfaBackupCodes = generateBackupCodes(codeSets + 1),
                                      ![u].version = @ + 1]
            /\ resp' = Resp("regenerateBackupCodes", u, 200, NoToken, tok, pwOk, FALSE)

\* ------------------------------------------------------------ requests in flight
\* The server handles requests concurrently: a handler runs up to its next await,
\* and other requests run between an await and its continuation.  A worker's pc
\* names the await its request is waiting at.

\* login for identity u with the correct password, no MFA: the handler up to
\* createSession's generateToken (resetLoginAttempts included)
loginStart(w, u) ==
    /\ inflight[w].pc = "idle"
    /\ ~IsLocked(users[u]) /\ users[u].isActive /\ ~mfaRequired(users[u])
    /\ users' = [users EXCEPT ![u] = resetLoginAttempts(users[u])]
    /\ inflight' = [inflight EXCEPT ![w] = [IdleReq EXCEPT !.pc = "count",
                                                            !.token = generateToken(u)]]
    /\ resp' = Resp("login", u, 0, NoToken, NoToken, w, FALSE)
    /\ UNCHANGED <<now, sec, sessions, held, tempToken, secrets, codeSets, ipGuard, auditLog, accepted>>

\* createSession: await Session.getActiveSessionCount and the test on its result
createSessionCount(w, u) ==
    /\ inflight[w].pc = "count"
    /\ inflight' = [inflight EXCEPT ![w].pc =
                       IF getActiveSessionCount(sessions, u) >= maxConcurrentSessions
                       THEN "find" ELSE "insert"]
    /\ resp' = Resp("login", u, 0, NoToken, NoToken, w, FALSE)
    /\ UNCHANGED <<now, sec, users, sessions, held, tempToken, secrets, codeSets, ipGuard, auditLog, accepted>>

\* removeOldestSession: await findOne({userId}).sort({createdAt: 1})
createSessionFind(w, u) ==
    /\ inflight[w].pc = "find"
    /\ inflight' = [inflight EXCEPT
                       ![w].pc = "delete",
                       ![w].oldest = IF \E s \in sessions : s.userId = u
                                     THEN OldestRow(sessions, u).token ELSE NoToken]
    /\ resp' = Resp("login", u, 0, NoToken, NoToken, w, FALSE)
    /\ UNCHANGED <<now, sec, users, sessions, held, tempToken, secrets, codeSets, ipGuard, auditLog, accepted>>

\* removeOldestSession: await deleteOne({_id: oldest._id}), if a row was found
createSessionDelete(w, u) ==
    /\ inflight[w].pc = "delete"
    /\ sessions' = {s \in sessions : s.token # inflight[w].oldest}
    /\ inflight' = [inflight EXCEPT ![w].pc = "insert"]
    /\ resp' = Resp("login", u, 0, NoToken, NoToken, w, FALSE)
    /\ UNCHANGED <<now, sec, users, held, tempToken, secrets, codeSets, ipGuard, auditLog, accepted>>

\* createSession: await Session.create, the cookie, and login's response
createSessionInsert(w, u) ==
    LET tok == inflight[w].token IN
    /\ inflight[w].pc = "insert"
    /\ inflight' = [inflight EXCEPT ![w] = IdleReq]
    /\ IF \A s \in sessions : s.token # tok
       THEN /\ sessions' = sessions \cup {RowFor(u, tok)}
            /\ held' = held \cup {tok}
            /\ resp' = Resp("login", u, 200, tok, NoToken, w, FALSE)
       ELSE /\ resp' = Resp("login", u, 500, NoToken, NoToken, w, FALSE)
            /\ UNCHANGED <<sessions, held>>
    /\ UNCHANGED <<now, sec, users, tempToken, secrets, codeSets, ipGuard, auditLog, accepted>>

\* login for identity u with a wrong password: User.findOne, the lock test, the
\* isActive test and bcrypt.compare, up to the await of incrementLoginAttempts
loginWrongStart(w, u) ==
    /\ inflight[w].pc = "idle"
    /\ IF IsLocked(users[u])
       THEN /\ resp' = Resp("login", u, 423, NoToken, NoToken, FALSE, FALSE)
            /\ UNCHANGED inflight
       ELSE IF ~users[u].isActive
       THEN /\ resp' = Resp("login", u, 401, NoToken, NoToken, FALSE, FALSE)
            /\ UNCHANGED inflight
       ELSE /\ inflight' = [inflight EXCEPT ![w] = [IdleReq EXCEPT !.pc = "write",
                                                                    !.snap = users[u]]]
            /\ resp' = Resp("login", u, 0, NoToken, NoToken, FALSE, FALSE)
    /\ UNCHANGED <<now, sec, users, sessions, held, tempToken, secrets, codeSets, ipGuard, auditLog, accepted>>

\* incrementLoginAttempts on the document read earlier: the branch and the lock
\* are decided on the copy in memory, $inc and $set are applied to the stored one
loginWrongFinish(w, u) ==
    LET snap == inflight[w].snap IN
    /\ inflight[w].pc = "write"
    /\ users' = [users EXCEPT ![u] =
          IF snap.lockedUntil # Never /\ Later(Clock, snap.lockedUntil)
          THEN [@ EXCEPT !.count = 1, !.lastAttempt = Clock, !.lockedUntil = Never]
          ELSE [@ EXCEPT !.count = @ + 1, !.lastAttempt = Clock,
                         !.lockedUntil = IF snap.count + 1 >= MAX_ATTEMPTS
                                         THEN Shift(Clock, LOCK_TIME) ELSE @]]
    /\ inflight' = [inflight EXCEPT ![w] = IdleReq]
    /\ resp' = Resp("login", u, 401, NoToken, NoToken, FALSE, FALSE)
    /\ UNCHANGED <<now, sec, sessions, held, tempToken, secrets, codeSets, ipGuard, auditLog, accepted>>

\* ------------------------------------------------------------ overlapping saves
\* a save that puts no version in its filter
saveMatches_unversioned(stored, snap) == TRUE

\* document.save() after a write to an array (an element by its index, or the
\* whole array): the update's filter carries the version the document was loaded
\* with, and a save that matches no document raises a VersionError
saveMatches(stored, snap) == stored.version = snap.version

\* useBackupCode up to its findById: the token verified, the document loaded
useBackupLoad(w, tok, typed) ==
    LET u == tok.id IN
    /\ inflight[w].pc = "idle"
    /\ jwtVerify(tok)
    /\ users[u].mfaEnabled
    /\ inflight' = [inflight EXCEPT ![w] = [IdleReq EXCEPT !.pc = "backup", !.snap = users[u],
                                                            !.token = tok, !.typed = typed]]
    /\ resp' = Resp("useBackupCode", u, 0, NoToken, tok, typed, FALSE)
    /\ UNCHANGED <<now, sec, users, sessions, held, tempToken, secrets, codeSets, ipGuard,
                   auditLog, accepted>>

\* useBackupCode from its loop over the loaded codes to its save
useBackupSave(w) ==
    LET tok == inflight[w].token
        u == tok.id
        typed == inflight[w].typed
        i == firstUnusedMatch(inflight[w].snap.mfaBackupCodes, typed)
    IN
    /\ inflight[w].pc = "backup"
    /\ UNCHANGED <<now, sec, sessions, held, tempToken, secrets, codeSets, ipGuard,
                   auditLog, accepted>>
    /\ IF i = 0
       THEN /\ resp' = Resp("useBackupCode", u, 401, NoToken, tok, typed, FALSE)
            /\ inflight' = [inflight EXCEPT ![w] = IdleReq]
            /\ UNCHANGED users
       ELSE IF ~saveMatches(users[u], inflight[w].snap)
       THEN /\ resp' = WithBody(Resp("useBackupCode", u, 500, NoToken, tok, typed, FALSE),
                                "VersionError")
            /\ inflight' = [inflight EXCEPT ![w] = IdleReq]
            /\ UNCHANGED users
       ELSE /\ users' = [users EXCEPT ![u].mfaBackupCodes[i].used = TRUE]
            /\ inflight' = [inflight EXCEPT ![w].pc = "session"]
            /\ resp' = Resp("useBackupCode", u, 0, NoToken, tok, typed, FALSE)

\* useBackupCode from createSession to its answer
useBackupSession(w) ==
    LET tok == inflight[w].token
        u == tok.id
        typed == inflight[w].typed
    IN
    /\ inflight[w].pc = "session"
    /\ inflight' = [inflight EXCEPT ![w] = IdleReq]
    /\ sessions' = createSession(sessions, u)
    /\ UNCHANGED <<now, sec, users, tempToken, secrets, codeSets, ipGuard, auditLog>>
    /\ IF createSessionOk(sessions, u)
       THEN /\ held' = held \cup {generateToken(u)}
            /\ accepted' = accepted \cup {tok}
            /\ resp' = Resp("useBackupCode", u, 200, generateToken(u), tok, typed, FALSE)
       ELSE /\ held' = held
            /\ UNCHANGED accepted
            /\ resp' = Resp("useBackupCode", u, 500, NoToken, tok, typed, FALSE)

\* regenerateBackupCodes behind protect, up to its password check
regenerateLoad(w, tok, pwOk) ==
    LET u == tok.id IN
    /\ inflight[w].pc = "idle"
    /\ ProtectAdmits(tok)
    /\ sessions' = touch(sessions, tok)
    /\ UNCHANGED <<now, sec, users, held, tempToken, secrets, codeSets, ipGuard, auditLog,
                   accepted>>
    /\ IF ~users[u].mfaEnabled
       THEN /\ resp' = Resp("regenerateBackupCodes", u, 400, NoToken, tok, pwOk, FALSE)
            /\ UNCHANGED inflight
       ELSE IF ~pwOk
       THEN /\ resp' = Resp("regenerateBackupCodes", u, 401, NoToken, tok, pwOk, FALSE)
            /\ UNCHANGED inflight
       ELSE /\ resp' = Resp("regenerateBackupCodes", u, 0, NoToken, tok, pwOk, FALSE)
            /\ inflight' = [inflight EXCEPT ![w] = [IdleReq EXCEPT !.pc = "regenerate",
                                                                    !.snap = users[u],
                                                                    !.token = tok]]

\* regenerateBackupCodes from hashing the new codes to its answer
regenerateSave(w) ==
    LET tok == inflight[w].token
        u == tok.id
    IN
    /\ inflight[w].pc = "regenerate"
    /\ inflight' = [inflight EXCEPT ![w] = IdleReq]
    /\ UNCHANGED <<now, sec, sessions, held, tempToken, secrets, ipGuard, auditLog, accepted>>
    /\ IF ~saveMatches(users[u], inflight[w].snap)
       THEN /\ resp' = WithBody(Resp("regenerateBackupCodes", u, 500, NoToken, tok, TRUE, FALSE),
                                "VersionError")
            /\ UNCHANGED <<users, codeSets>>
       ELSE /\ codeSets' = codeSets + 1
            /\ users' = [users EXCEPT ![u].mfaBackupCodes = generateBackupCodes(codeSets + 1),
                                      ![u].version = @ + 1]
            /\ resp' = WithBody(Resp("regenerateBackupCodes", u, 200, NoToken, tok, TRUE, FALSE),
                                <<"backupCodes", codeSets + 1>>)

\* ------------------------------------------------------------ password reset
\* a rollback that leaves the reset fields as stored
clearResetFields_keep(usr) == usr

\* forgotPassword's catch of the e-mail error: clear the reset fields
clearResetFields(usr) ==
    [usr EXCEPT !.passwordResetCode = NoHash, !.passwordResetExpires = Never]

\* POST /api/auth/forgot-password for the e-mail of identity u or of nobody;
\* c: the code crypto.randomInt draws; mail: what sending the code does
forgotPassword(u, c, mail) ==
    LET usr == users[u]
        stored == [usr EXCEPT !.passwordResetCode = bcryptHash(<<"code", c>>),
                              !.passwordResetExpires = Shift(Clock, resetCodeTtl)]
    IN
    /\ UNCHANGED <<now, sec, sessions, held, tempToken, secrets, codeSets, inflight,
                   ipGuard, auditLog, accepted>>
    /\ IF u \notin Users
       THEN /\ resp' = Resp("forgotPassword", u, 200, NoToken, NoToken, mail, FALSE)
            /\ UNCHANGED users
       ELSE IF ~usr.isActive
       THEN /\ resp' = Resp("forgotPassword", u, 200, NoToken, NoToken, mail, FALSE)
            /\ UNCHANGED users
       ELSE IF mail = "failed"
       THEN /\ users' = [users EXCEPT ![u] = clearResetFields(stored)]
            /\ resp' = Resp("forgotPassword", u, 500, NoToken, NoToken, mail, FALSE)
       ELSE /\ users' = [users EXCEPT ![u] = stored]
            /\ resp' = WithBody(Resp("forgotPassword", u, 200, NoToken, NoToken, mail, FALSE),
                                <<"code", c>>)

\* POST /api/auth/verify-reset-code; typed: the code in the request; t: the reset
\* token crypto.randomBytes draws
verifyResetCode(u, typed, t) ==
    LET usr == users[u] IN
    /\ UNCHANGED <<now, sec, sessions, held, tempToken, secrets, codeSets, inflight,
                   ipGuard, auditLog, accepted>>
    /\ IF u \notin Users
       THEN /\ resp' = Resp("verifyResetCode", u, 400, NoToken, NoToken, typed, FALSE)
            /\ UNCHANGED users
       ELSE IF usr.passwordResetCode = NoHash \/ usr.passwordResetExpires = Never
       THEN /\ resp' = Resp("verifyResetCode", u, 400, NoToken, NoToken, typed, FALSE)
            /\ UNCHANGED users
       ELSE IF Later(Clock, usr.passwordResetExpires)
       THEN /\ users' = [users EXCEPT ![u] = clearResetFields(usr)]
            /\ resp' = Resp("verifyResetCode", u, 400, NoToken, NoToken, typed, FALSE)
       ELSE IF ~bcryptCompare(typed, usr.passwordResetCode)
       THEN /\ resp' = Resp("verifyResetCode", u, 400, NoToken, NoToken, typed, FALSE)
            /\ UNCHANGED users
       ELSE /\ users' = [users EXCEPT
                            ![u].passwordResetCode = bcryptHash(<<"token", t>>),
                            ![u].passwordResetExpires = Shift(Clock, resetTokenTtl)]
            /\ resp' = WithBody(Resp("verifyResetCode", u, 200, NoToken, NoToken, typed,
                                     FALSE), <<"token", t>>)

\* POST /api/auth/reset-password with a password that meets the policy; typed: the
\* reset token in the request
resetPassword(u, typed) ==
    LET usr == users[u] IN
    /\ UNCHANGED <<now, sec, sessions, held, tempToken, secrets, codeSets, inflight,
                   ipGuard, auditLog, accepted>>
    /\ IF u \notin Users
       THEN /\ resp' = Resp("resetPassword", u, 400, NoToken, NoToken, typed, FALSE)
            /\ UNCHANGED users
       ELSE IF usr.passwordResetCode = NoHash \/ usr.passwordResetExpires = Never
       THEN /\ resp' = Resp("resetPassword", u, 400, NoToken, NoToken, typed, FALSE)
            /\ UNCHANGED users
       ELSE IF Later(Clock, usr.passwordResetExpires)
       THEN /\ users' = [users EXCEPT ![u] = clearResetFields(usr)]
            /\ resp' = Resp("resetPassword", u, 400, NoToken, NoToken, typed, FALSE)
       ELSE IF ~bcryptCompare(typed, usr.passwordResetCode)
       THEN /\ resp' = Resp("resetPassword", u, 400, NoToken, NoToken, typed, FALSE)
            /\ UNCHANGED users
       ELSE /\ users' = [users EXCEPT
                            ![u] = [clearResetFields(usr) EXCEPT
                                       !.password = @ + 1,
                                       !.passwordExpiresAt = calculatePasswordExpiry,
                                       !.count = 0,
                                       !.lastAttempt = Never, !.lockedUntil = Never]]
            /\ resp' = Resp("resetPassword", u,
                            statusAfterNotify("sendPasswordChangeConfirmation"),
                            NoToken, NoToken, typed, FALSE)

\* ------------------------------------------------------------ audit log
\* what auditLog.save() does for one record
StoreOutcomes == {"saved", "error"}

\* getChangedFields on the name: the pair before/after when it changed
getChangedFields(before, after) == IF before = after THEN <<>> ELSE <<before, after>>

\* the try block of createAuditLog: "null" when the request has no user, "throw"
\* when the store fails, "written" when the record was saved
auditTryBlock(hasActor, store) ==
    IF ~hasActor THEN "null"
    ELSE IF store = "error" THEN "throw"
    ELSE "written"

\* createAuditLog without its catch
createAuditLog_rethrow(hasActor, store) == auditTryBlock(hasActor, store)

\* createAuditLog: its catch logs the error and returns null
createAuditLog(hasActor, store) ==
    IF auditTryBlock(hasActor, store) = "throw" THEN "null"
    ELSE auditTryBlock(hasActor, store)

\* PUT /api/auth/profile behind protect, with a new name; store: what saving the
\* audit record does
updateProfile(tok, name, store) ==
    LET u == tok.id
        audit == createAuditLog(TRUE, store)
        record == [action |-> "UPDATE", targetType |-> "User", targetId |-> u,
                   changes |-> getChangedFields(users[u].name, name), performedBy |-> u]
    IN
    /\ ProtectAdmits(tok)
    /\ sessions' = touch(sessions, tok)
    /\ users' = [users EXCEPT ![u].name = name]
    /\ auditLog' = IF audit = "written" THEN Append(auditLog, record) ELSE auditLog
    /\ resp' = WithBody(Resp("updateProfile", u, IF audit = "throw" THEN 500 ELSE 200,
                             NoToken, tok, store, FALSE), <<"name", name>>)
    /\ UNCHANGED <<now, sec, held, tempToken, secrets, codeSets, inflight, ipGuard,
                   accepted>>

\* ------------------------------------------------------------ password policy
\* a password as the tests of validatePasswordComplexity see it: its length, which
\* of the four character-class regexes match, and whether a weak pattern matches
PwLengths == {0, 1, 7, 11, 12, 15, 16, 128, 129}

PwClasses(pw) ==
    (IF pw.upper THEN 1 ELSE 0) + (IF pw.lower THEN 1 ELSE 0)
    + (IF pw.digit THEN 1 ELSE 0) + (IF pw.symbol THEN 1 ELSE 0)

\* the combinations a string can have: a class needs a character; a weak pattern
\* is one repeated character, a run of digits or of letters, or a word in letters
Passwords ==
    {pw \in [len : PwLengths, upper : BOOLEAN, lower : BOOLEAN, digit : BOOLEAN,
             symbol : BOOLEAN, weak : BOOLEAN] :
        /\ PwClasses(pw) <= pw.len
        /\ pw.len > 0 => PwClasses(pw) > 0 \/ ~pw.weak
        /\ pw.weak => pw.len >= 2
        /\ pw.weak => (pw.upper \/ pw.lower \/ PwClasses(pw) <= 1)}

\* a validator that returns at its first violated rule
validationErrors_firstOnly(pw) ==
    IF pw.len = 0 \/ pw.len < minLength THEN <<"minLength">>
    ELSE IF pw.len > maxLength THEN <<"maxLength">>
    ELSE IF ~pw.upper THEN <<"uppercase">>
    ELSE IF ~pw.lower THEN <<"lowercase">>
    ELSE IF ~pw.digit THEN <<"number">>
    ELSE IF ~pw.symbol THEN <<"symbol">>
    ELSE IF pw.weak THEN <<"weak">>
    ELSE <<>>

\* validatePasswordComplexity: the errors array, one tag per message pushed
validationErrors(pw) ==
    (IF pw.len = 0 \/ pw.len < minLength THEN <<"minLength">> ELSE <<>>)
    \o (IF pw.len # 0 /\ pw.len > maxLength THEN <<"maxLength">> ELSE <<>>)
    \o (IF ~pw.upper THEN <<"uppercase">> ELSE <<>>)
    \o (IF ~pw.lower THEN <<"lowercase">> ELSE <<>>)
    \o (IF ~pw.digit THEN <<"number">> ELSE <<>>)
    \o (IF ~pw.symbol THEN <<"symbol">> ELSE <<>>)
    \o (IF pw.weak THEN <<"weak">> ELSE <<>>)

\* strength counted without the point for the minimum length
rawStrength2_noLengthPoint(pw) ==
    LET checks == (IF pw.upper THEN 2 ELSE 0) + (IF pw.lower THEN 1 ELSE 0)
                  + (IF pw.digit THEN 2 ELSE 0) + (IF pw.symbol THEN 2 ELSE 0)
        penalised == IF pw.weak THEN (IF checks - 2 > 0 THEN checks - 2 ELSE 0) ELSE checks
    IN penalised + (IF pw.len # 0 /\ pw.len >= bonusLength THEN 1 ELSE 0)

\* validatePasswordComplexity: strength before normalising, counted in halves
rawStrength2(pw) ==
    LET checks == (IF pw.len = 0 \/ pw.len < minLength THEN 0 ELSE 2)
                  + (IF pw.upper THEN 2 ELSE 0)
                  + (IF pw.lower THEN 1 ELSE 0)
                  + (IF pw.digit THEN 2 ELSE 0)
                  + (IF pw.symbol THEN 2 ELSE 0)
        penalised == IF pw.weak THEN (IF checks - 2 > 0 THEN checks - 2 ELSE 0) ELSE checks
    IN penalised + (IF pw.len # 0 /\ pw.len >= bonusLength THEN 1 ELSE 0)

\* Math.min(4, Math.max(0, Math.floor(strength)))
normalizedStrength(pw) ==
    LET floor == rawStrength2(pw) \div 2 IN
    IF floor > 4 THEN 4 ELSE IF floor < 0 THEN 0 ELSE floor

validatePasswordComplexity(pw) ==
    [isValid |-> Len(validationErrors(pw)) = 0,
     errors |-> validationErrors(pw),
     strength |-> normalizedStrength(pw)]

\* POST /api/auth/validate-password
validatePassword(pw) ==
    /\ resp' = IF pw.len = 0
               THEN Resp("validatePassword", None, 400, NoToken, NoToken, pw, FALSE)
               ELSE WithBody(Resp("validatePassword", None, 200, NoToken, NoToken, pw, FALSE),
                             validatePasswordComplexity(pw))
    /\ UNCHANGED <<now, sec, users, sessions, held, tempToken, secrets, codeSets, inflight,
                   ipGuard, auditLog, accepted>>

\* ------------------------------------------------------------ specifications
\* the one-time codes and backup codes a client types
TotpTyped == 0..MaxSecrets
BackupTyped ==
    {<<k, i, c>> : k \in 1..MaxCodeSets, i \in 1..MaxTyped, c \in {"upper", "lower"}}

\* Session store: one identity without MFA opens, uses and leaves sessions
NextSess ==
    \/ Tick /\ now < SessHorizon
    \/ login("u1", TRUE) /\ Cardinality(held') <= MaxSessions
    \/ \E tok \in Presentable : protect(tok)
    \/ \E tok \in LogoutTokens : logout(tok)
    \/ \E tok, target \in Presentable : revokeSession(tok, target)
    \/ \E tok \in Presentable : revokeAllSessions(tok)

SpecSess == Init /\ [][NextSess]_vars

\* MFA: one identity sets MFA up, signs in by every entry point, and disables it
NextMfa ==
    \/ Tick /\ now < MfaHorizon
    \/ login("u1", TRUE) /\ Cardinality(held') <= MaxMfaSessions
    \/ googleLogin("u1") /\ Cardinality(held') <= MaxMfaSessions
    \/ googleCallback("u1") /\ Cardinality(held') <= MaxMfaSessions
    \/ \E tok \in Presentable : setupMFA(tok) /\ secrets' <= MaxSecrets
    \/ \E tok \in Presentable, code \in TotpTyped :
          verifySetup(tok, code) /\ codeSets' <= MaxCodeSets
    \/ \E tok \in Presentable, code \in TotpTyped :
          verifyMFA(tok, code) /\ Cardinality(held') <= MaxMfaSessions
    \/ \E tok \in Presentable, typed \in BackupTyped :
          useBackupCode(tok, typed) /\ Cardinality(held') <= MaxMfaSessions
    \/ \E tok \in Presentable, pwOk \in BOOLEAN : disableMFA(tok, pwOk)
    \/ \E tok \in Presentable, pwOk \in BOOLEAN :
          regenerateBackupCodes(tok, pwOk) /\ codeSets' <= MaxCodeSets

SpecMfa == Init /\ [][NextMfa]_vars

\* Password expiry: sign-ins of an identity whose password expired, expires
\* within the warning period, expires later, or has no expiry date
ExpiryDates ==
    {Never, <<0, 0>>, <<0, 1>>, <<1, 0>>,
     <<warningDays * slotsPerDay, 0>>, <<warningDays * slotsPerDay, 1>>,
     <<warningDays * slotsPerDay + 1, 0>>, <<expiryDays * slotsPerDay, 0>>}

InitExpiry ==
    /\ now = 0
    /\ sec = 0
    /\ \E e \in ExpiryDates :
          users = [u \in Users |-> IF u = "u1"
                                   THEN [InitUser EXCEPT !.passwordExpiresAt = e]
                                   ELSE InitUser]
    /\ sessions = {}
    /\ held = {}
    /\ tempToken = [u \in Users |-> NoToken]
    /\ secrets = 0
    /\ codeSets = 0
    /\ resp = Resp("init", None, 0, NoToken, NoToken, None, FALSE)
    /\ inflight = [w \in Workers |-> IdleReq]
    /\ ipGuard = InitGuard
    /\ auditLog = <<>>
    /\ accepted = {}

NextExpiry ==
    \/ Tick /\ now < ExpiryHorizon
    \/ TickSec
    \/ \E pwOk \in BOOLEAN : login("u1", pwOk) /\ Cardinality(held') <= MaxExpirySessions

SpecExpiry == InitExpiry /\ [][NextExpiry]_vars

\* Account deletion: two identities sign in and delete their accounts
NextDelete ==
    \/ Tick /\ now < DeleteHorizon
    \/ TickSec
    \/ \E u \in Users : login(u, TRUE) /\ Cardinality(held') <= MaxDeleteSessions
    \/ \E tok \in Presentable : protect(tok)
    \/ \E tok \in Presentable, pwOk, strictQuery \in BOOLEAN :
          deleteAccount(tok, pwOk, strictQuery)

SpecDelete == Init /\ [][NextDelete]_vars

\* an identity that completed MFA setup: the first secret, the first code set
MfaUser ==
    [InitUser EXCEPT !.mfaEnabled = TRUE, !.mfaSecret = 1,
                     !.mfaBackupCodes = generateBackupCodes(1), !.version = 1]

\* Lockout: right and wrong passwords against one identity, with or without MFA
InitLock ==
    /\ now = 0
    /\ sec = 0
    /\ \E usr \in {InitUser, MfaUser} :
          /\ users = [u \in Users |-> IF u = "u1" THEN usr ELSE InitUser]
          /\ secrets = usr.mfaSecret
          /\ codeSets = usr.mfaSecret
    /\ sessions = {}
    /\ held = {}
    /\ tempToken = [u \in Users |-> NoToken]
    /\ resp = Resp("init", None, 0, NoToken, NoToken, None, FALSE)
    /\ inflight = [w \in Workers |-> IdleReq]
    /\ ipGuard = InitGuard
    /\ auditLog = <<>>
    /\ accepted = {}

NextLock ==
    \/ Tick /\ now < LockHorizon
    \/ \E pwOk \in BOOLEAN : login("u1", pwOk) /\ Cardinality(held') <= MaxLockSessions

SpecLock == InitLock /\ [][NextLock]_vars

\* Absolute timeout: sessions opened early and kept alive, or not, for 8 hours
NextAbs ==
    \/ Tick /\ now < AbsHorizon
    \/ login("u1", TRUE) /\ now <= AbsLoginBy
    \/ \E tok \in Presentable : protect(tok)
    \/ \E tok \in Presentable : logout(tok)
    \/ ttlMonitor

SpecAbs == Init /\ [][NextAbs]_vars

\* Concurrent session creation: logins of one identity handled at the same time
NextSessRace ==
    \/ Tick /\ now < RaceHorizon
    \/ TickSec
    \/ \E w \in Workers :
          /\ loginStart(w, "u1")
          /\ Cardinality(held) + Cardinality({v \in Workers : inflight[v].pc # "idle"})
                < MaxRaceSessions
    \/ \E w \in Workers : createSessionCount(w, "u1")
    \/ \E w \in Workers : createSessionFind(w, "u1")
    \/ \E w \in Workers : createSessionDelete(w, "u1")
    \/ \E w \in Workers : createSessionInsert(w, "u1")

SpecSessRace == Init /\ [][NextSessRace]_vars

\* Concurrent wrong passwords: failed logins of one identity handled at the same
\* time
NextLoginRace ==
    \/ Tick /\ now < LoginRaceHorizon
    \/ \E w \in Workers : loginWrongStart(w, "u1")
    \/ \E w \in Workers : loginWrongFinish(w, "u1")

SpecLoginRace == Init /\ [][NextLoginRace]_vars

\* the logins tried at the gate: right and wrong passwords for one identity,
\* wrong ones for another and for an unknown e-mail
GateLogins == {<<"u1", TRUE>>, <<"u1", FALSE>>, <<"u2", FALSE>>, <<NoUser, FALSE>>}

\* IP gate: one address tries logins, two addresses make other requests
NextGate ==
    \/ Tick /\ now < GateHorizon
    \/ \E l \in GateLogins :
          /\ postLogin("ip1", l[1], l[2])
          /\ Cardinality(held') <= MaxGateSessions
          /\ ipGuard'.hits["ip1"].count <= MaxGateHits
    \/ \E ip \in IPs : getHealth(ip)

SpecGate == Init /\ [][NextGate]_vars

\* Password reset: codes asked for, delivered or not, typed, and used, with wrong
\* passwords in between
ResetTyped ==
    {<<"code", c>> : c \in 1..MaxResetCodes} \cup {<<"token", t>> : t \in 1..MaxResetTokens}

NextReset ==
    \/ Tick /\ now < ResetHorizon
    \/ \E u \in {"u1", NoUser}, c \in 1..MaxResetCodes, mail \in MailOutcomes :
          forgotPassword(u, c, mail)
    \/ \E u \in {"u1", NoUser}, typed \in ResetTyped, t \in 1..MaxResetTokens :
          verifyResetCode(u, typed, t)
    \/ \E u \in {"u1", NoUser}, typed \in ResetTyped :
          resetPassword(u, typed) /\ users'["u1"].password <= MaxPasswords
    \/ login("u1", FALSE)

SpecReset == Init /\ [][NextReset]_vars

\* Audit log: a signed-in identity changes its profile while the audit store works
\* or fails
NextAudit ==
    \/ Tick /\ now < AuditHorizon
    \/ TickSec
    \/ login("u1", TRUE) /\ Cardinality(held') <= MaxAuditSessions
    \/ \E tok \in Presentable : protect(tok)
    \/ \E tok \in Presentable, name \in 1..MaxNames, store \in StoreOutcomes :
          updateProfile(tok, name, store) /\ Len(auditLog') <= MaxAuditLogs

SpecAudit == Init /\ [][NextAudit]_vars

\* Revocation: two identities open sessions and revoke their own and each other's
\* the new passwords tried with changePassword: one too short, one that meets
\* every rule
NewPasswords ==
    {pw \in Passwords : /\ pw.len \in {7, 16}
                        /\ pw.upper /\ pw.lower /\ pw.digit /\ pw.symbol /\ ~pw.weak}

\* changePassword that ends the identity's other sessions
changePassword_revokesOthers(tok, curOk, pw) ==
    LET u == tok.id IN
    /\ ProtectAdmits(tok)
    /\ UNCHANGED <<now, sec, held, tempToken, secrets, codeSets, inflight, ipGuard,
                   auditLog, accepted>>
    /\ IF ~curOk
       THEN /\ resp' = WithBody(Resp("changePassword", u, 401, NoToken, tok, curOk, FALSE), pw)
            /\ sessions' = touch(sessions, tok)
            /\ UNCHANGED users
       ELSE IF ~validatePasswordComplexity(pw).isValid
       THEN /\ resp' = WithBody(Resp("changePassword", u, 400, NoToken, tok, curOk, FALSE), pw)
            /\ sessions' = touch(sessions, tok)
            /\ UNCHANGED users
       ELSE /\ users' = [users EXCEPT ![u].password = @ + 1,
                                      ![u].passwordExpiresAt = calculatePasswordExpiry]
            /\ sessions' = {s \in touch(sessions, tok) : s.userId # u \/ s.token = tok}
            /\ resp' = WithBody(Resp("changePassword", u, 200, NoToken, tok, curOk, FALSE), pw)

\* POST /api/auth/change-password behind protect; curOk: bcrypt.compare of the
\* current password; pw: the new password
changePassword(tok, curOk, pw) ==
    LET u == tok.id IN
    /\ ProtectAdmits(tok)
    /\ sessions' = touch(sessions, tok)
    /\ UNCHANGED <<now, sec, held, tempToken, secrets, codeSets, inflight, ipGuard,
                   auditLog, accepted>>
    /\ IF ~curOk
       THEN /\ resp' = WithBody(Resp("changePassword", u, 401, NoToken, tok, curOk, FALSE), pw)
            /\ UNCHANGED users
       ELSE IF ~validatePasswordComplexity(pw).isValid
       THEN /\ resp' = WithBody(Resp("changePassword", u, 400, NoToken, tok, curOk, FALSE), pw)
            /\ UNCHANGED users
       ELSE /\ users' = [users EXCEPT ![u].password = @ + 1,
                                      ![u].passwordExpiresAt = calculatePasswordExpiry]
            /\ resp' = WithBody(Resp("changePassword", u, 200, NoToken, tok, curOk, FALSE), pw)

NextRevoke ==
    \/ \E tok \in Presentable, curOk \in BOOLEAN, pw \in NewPasswords :
          changePassword(tok, curOk, pw) /\ users'[tok.id].password <= MaxPasswords
    \/ Tick /\ now < RevokeHorizon
    \/ \E u \in Users : login(u, TRUE) /\ Cardinality(held') <= MaxRevokeSessions
    \/ \E tok \in Presentable : protect(tok)
    \/ \E tok, target \in Presentable : revokeSession(tok, target)
    \/ \E tok \in Presentable : revokeAllSessions(tok)

SpecRevoke == Init /\ [][NextRevoke]_vars

\* Password replacement: an identity that holds sessions changes its password
\* while signed in, or asks for a reset code and resets it
NextPwChange ==
    \/ Tick /\ now < PwChangeHorizon
    \/ login("u1", TRUE) /\ Cardinality(held') <= MaxPwChangeSessions
    \/ \E tok \in Presentable : protect(tok)
    \/ \E tok \in Presentable, curOk \in BOOLEAN, pw \in NewPasswords :
          changePassword(tok, curOk, pw) /\ users'[tok.id].password <= MaxPasswords
    \/ \E c \in 1..MaxResetCodes, mail \in MailOutcomes : forgotPassword("u1", c, mail)
    \/ \E typed \in ResetTyped, t \in 1..MaxResetTokens : verifyResetCode("u1", typed, t)
    \/ \E typed \in ResetTyped :
          resetPassword("u1", typed) /\ users'["u1"].password <= MaxPasswords

SpecPwChange == Init /\ [][NextPwChange]_vars

\* Password policy: passwords of every combination of features are evaluated
NextPolicy == \E pw \in Passwords : validatePassword(pw)

SpecPolicy == Init /\ [][NextPolicy]_vars

\* Challenge tokens: an identity with MFA signs in, answers the challenge with
\* one-time codes and backup codes, second by second, and uses what it was handed
InitChallenge ==
    /\ now = 0
    /\ sec = 0
    /\ users = [u \in Users |-> IF u = "u1" THEN MfaUser ELSE InitUser]
    /\ secrets = 1
    /\ codeSets = 1
    /\ sessions = {}
    /\ held = {}
    /\ tempToken = [u \in Users |-> NoToken]
    /\ resp = Resp("init", None, 0, NoToken, NoToken, None, FALSE)
    /\ inflight = [w \in Workers |-> IdleReq]
    /\ ipGuard = InitGuard
    /\ auditLog = <<>>
    /\ accepted = {}

NextChallenge ==
    \/ Tick /\ now < ChallengeHorizon
    \/ TickSec
    \/ login("u1", TRUE)
    \/ \E tok \in Presentable, code \in TotpTyped :
          verifyMFA(tok, code) /\ Cardinality(held') <= MaxChallengeSessions
    \/ \E tok \in Presentable, typed \in BackupTyped :
          useBackupCode(tok, typed) /\ Cardinality(held') <= MaxChallengeSessions
    \/ \E tok \in Presentable : protect(tok)

SpecChallenge == InitChallenge /\ [][NextChallenge]_vars

\* Lock during a challenge: an identity with MFA signs in with right and wrong
\* passwords and by Google, and answers the challenges it was handed
NextLockedIssue ==
    \/ Tick /\ now < LockedIssueHorizon
    \/ \E pwOk \in BOOLEAN :
          login("u1", pwOk) /\ Cardinality(held') <= MaxLockedIssueSessions
    \/ googleLogin("u1") /\ Cardinality(held') <= MaxLockedIssueSessions
    \/ \E tok \in Presentable, code \in TotpTyped :
          verifyMFA(tok, code) /\ Cardinality(held') <= MaxLockedIssueSessions
    \/ \E tok \in Presentable, typed \in BackupTyped :
          useBackupCode(tok, typed) /\ Cardinality(held') <= MaxLockedIssueSessions

SpecLockedIssue == InitChallenge /\ [][NextLockedIssue]_vars

\* Backup-code regeneration: an identity with MFA that holds a session and a
\* challenge token regenerates its backup codes and redeems backup codes, the
\* handlers interleaving at their awaits
InitRegen ==
    /\ now = 0
    /\ sec = 0
    /\ users = [u \in Users |-> IF u = "u1" THEN MfaUser ELSE InitUser]
    /\ secrets = 1
    /\ codeSets = 1
    /\ sessions = {[userId |-> "u1", token |-> [type |-> "session", id |-> "u1", iat |-> <<0, 0>>],
                    createdAt |-> <<0, 0>>, lastActivity |-> <<0, 0>>,
                    expiresAt |-> <<maxSession, 0>>]}
    /\ held = {[type |-> "session", id |-> "u1", iat |-> <<0, 0>>]}
    /\ tempToken = [u \in Users |-> IF u = "u1"
                                    THEN [type |-> "mfa_pending", id |-> "u1", iat |-> <<0, 0>>]
                                    ELSE NoToken]
    /\ resp = Resp("init", None, 0, NoToken, NoToken, None, FALSE)
    /\ inflight = [w \in Workers |-> IdleReq]
    /\ ipGuard = InitGuard
    /\ auditLog = <<>>
    /\ accepted = {}

NextRegen ==
    \/ TickSec
    \/ \E w \in Workers, tok \in Presentable, typed \in BackupTyped :
          useBackupLoad(w, tok, typed)
    \/ \E w \in Workers : useBackupSave(w)
    \/ \E w \in Workers : useBackupSession(w) /\ Cardinality(held') <= MaxRegenSessions
    \/ \E w \in Workers, tok \in Presentable, pwOk \in BOOLEAN :
          regenerateLoad(w, tok, pwOk)
    \/ \E w \in Workers : regenerateSave(w) /\ codeSets' <= MaxCodeSets

SpecRegen == InitRegen /\ [][NextRegen]_vars

\* Overlapping redemptions: two requests redeem backup codes of one identity
NextBackupRace ==
    \/ Tick /\ now < BackupRaceHorizon
    \/ TickSec
    \/ \E w \in Workers, tok \in Presentable, typed \in BackupTyped :
          useBackupLoad(w, tok, typed)
    \/ \E w \in Workers : useBackupSave(w)
    \/ \E w \in Workers :
          useBackupSession(w) /\ Cardinality(held') <= MaxBackupRaceSessions

SpecBackupRace == InitRegen /\ [][NextBackupRace]_vars

\* ------------------------------------------------------------ claims
\* the step just taken is a request to op for identity u
Handled(op, u) == resp'.op = op /\ resp'.user = u /\ vars' # vars

\* u has failed MAX_ATTEMPTS or more times in a row, the latest failure less than
\* LOCK_TIME ago
C1_LockPending(u) ==
    /\ users[u].count >= MAX_ATTEMPTS
    /\ Later(Shift(users[u].lastAttempt, LOCK_TIME), Clock)

\* C1: after 5 consecutive wrong-password attempts on an identity, every login on
\* it made less than 30 minutes after the latest of them is answered 423 (locked),
\* whatever the password, returns no token and leaves the sessions, the issued
\* tokens, the MFA challenge and the identity as they were.
C1_Lockout ==
    [][\A u \in Users :
          (C1_LockPending(u) /\ Handled("login", u))
          => /\ resp'.status = 423
             /\ resp'.token = NoToken
             /\ UNCHANGED <<users, sessions, held, tempToken>>]_vars

\* a login with the correct password was answered 423 on a locked identity
C1_Witness ==
    /\ resp.op = "login" /\ resp.status = 423 /\ resp.arg = TRUE
    /\ users["u1"].count >= MAX_ATTEMPTS

\* a challenge token issued 5 minutes ago or earlier
C2_ChallengeStale(tok) ==
    tok.type = "mfa_pending" /\ ~Later(Shift(tok.iat, mfaTokenTtl), Clock)

\* C2: a login with the correct password on an identity with MFA enabled creates
\* no session row and neither returns nor sets a session token; when it is
\* answered 200 it returns a challenge token of the identity, issued now; and a
\* challenge token presented to verifyMFA or useBackupCode 5 minutes or more
\* after its issue is answered 401 with no token, no session and no backup code
\* consumed.
C2_MfaLoginChallenge ==
    [][/\ \A u \in Users :
             (users[u].mfaEnabled /\ Handled("login", u) /\ resp'.arg = TRUE)
             => /\ UNCHANGED <<sessions, held>>
                /\ resp'.token.type # "session"
                /\ resp'.status = 200
                   => /\ resp'.token = [type |-> "mfa_pending", id |-> u, iat |-> Clock]
                      /\ tempToken'[u] = resp'.token
       /\ (/\ resp'.op \in {"verifyMFA", "useBackupCode"}
           /\ vars' # vars
           /\ C2_ChallengeStale(resp'.cred))
          => /\ resp'.status = 401
             /\ resp'.token = NoToken
             /\ UNCHANGED <<users, sessions, held>>]_vars

\* the challenge of an MFA login was presented to verifyMFA with the right code 5
\* minutes or more after its issue, and was refused
C2_Witness ==
    /\ resp.op = "verifyMFA" /\ resp.status = 401
    /\ C2_ChallengeStale(resp.cred)
    /\ users[resp.user].mfaEnabled
    /\ totpVerify(users[resp.user], resp.arg)
    /\ tempToken[resp.user] = resp.cred
    /\ resp.token = NoToken

\* C3: while MFA is enabled for an identity, a step creates a session row for it
\* only if the step is a verifyMFA or a useBackupCode answered 200; password
\* login, googleLogin and googleCallback create none.
C3_OnlyMfaCreatesSession ==
    [][\A u \in Users :
          (/\ users[u].mfaEnabled
           /\ \E s \in sessions' : /\ s.userId = u
                                   /\ \A t \in sessions : t.token # s.token)
          => /\ resp'.op \in {"verifyMFA", "useBackupCode"}
             /\ resp'.status = 200]_vars

\* C4: the cap of 3 active sessions (last activity within the idle window,
\* absolute expiry not reached) is kept by every step that admits a new session:
\* if the identity had at most 3 active sessions, its other stored rows all
\* being expired ones not yet deleted, it has at most 3 active sessions after the
\* step.
C4_SessionCap ==
    [][\A u \in Users :
          (/\ resp'.user = u /\ resp'.token.type = "session" /\ vars' # vars
           /\ getActiveSessionCount(sessions, u) <= maxConcurrentSessions
           /\ \A s \in sessions :
                 s.userId = u => (s \in ActiveRows(sessions, u) \/ isExpired(s)))
          => getActiveSessionCount(sessions', u) <= maxConcurrentSessions]_vars

\* the active session of u created first (u has active sessions)
C5_OldestActive(u) ==
    CHOOSE s \in ActiveRows(sessions, u) :
        \A t \in ActiveRows(sessions, u) : ~Later(s.createdAt, t.createdAt)

\* C5: when an identity has exactly 3 active sessions and a login creates a 4th,
\* the step deletes exactly the active session created first and inserts the new
\* one: afterwards exactly 3 sessions are active, the two younger ones and the new
\* one are stored unexpired, and the evicted token has no row.
C5_EvictsOldestActive ==
    [][\A u \in Users :
          (/\ Handled("login", u)
           /\ resp'.status = 200
           /\ getActiveSessionCount(sessions, u) = maxConcurrentSessions)
          => /\ sessions' = (sessions \ {C5_OldestActive(u)}) \cup {NewRow(u)}
             /\ Cardinality(ActiveRows(sessions', u)) = maxConcurrentSessions
             /\ \A s \in (ActiveRows(sessions, u) \ {C5_OldestActive(u)}) \cup {NewRow(u)} :
                   s \in sessions' /\ ~isExpired(s)
             /\ FindSession(sessions', C5_OldestActive(u).token) = {}]_vars

\* C6: whenever no session creation is in flight, every identity has at most 3
\* active sessions, however the count, find, delete and insert steps of
\* concurrent createSession calls were interleaved.
C6_CapAfterConcurrentCreate ==
    (\A w \in Workers : inflight[w].pc = "idle")
    => \A u \in Users : getActiveSessionCount(sessions, u) <= maxConcurrentSessions

\* C7: however concurrent failed logins are interleaved, the stored failure
\* counter of an identity never exceeds 5, the number of wrong passwords verified
\* and recorded, and never reaches 5 without lockedUntil being set.
C7_LockAtFiveFailures ==
    \A u \in Users :
        /\ users[u].count <= MAX_ATTEMPTS
        /\ users[u].count >= MAX_ATTEMPTS => users[u].lockedUntil # Never

\* the stored codes of u that the typed code names, by used flag
C8_Named(u, typed, used) ==
    {i \in DOMAIN users[u].mfaBackupCodes :
        /\ users[u].mfaBackupCodes[i].code = toUpperCase(typed)
        /\ users[u].mfaBackupCodes[i].used = used}

\* C8: a useBackupCode with a valid challenge token on an identity with MFA
\* enabled, typing a code that is stored unused, is answered 200, marks that code
\* used and creates exactly one session; typing a code that is stored only as
\* used, it is answered 401 and changes neither the codes nor the sessions; and
\* no step turns the used flag of a stored code back to false while the code
\* stays stored.
C8_BackupCodeSingleUse ==
    [][/\ \A u \in Users :
             (/\ Handled("useBackupCode", u)
              /\ resp'.cred.type = "mfa_pending"
              /\ Later(Shift(resp'.cred.iat, mfaTokenTtl), Clock)
              /\ users[u].mfaEnabled)
             => /\ C8_Named(u, resp'.arg, FALSE) # {}
                   => /\ resp'.status = 200
                      /\ \E i \in C8_Named(u, resp'.arg, FALSE) :
                            users' = [users EXCEPT ![u].mfaBackupCodes[i].used = TRUE]
                      /\ NewRow(u) \in sessions'
                      /\ sessions' \ {NewRow(u)} \subseteq sessions
                      /\ held' = held \cup {resp'.token}
                      /\ resp'.token = NewRow(u).token
                /\ (C8_Named(u, resp'.arg, FALSE) = {} /\ C8_Named(u, resp'.arg, TRUE) # {})
                   => /\ resp'.status = 401
                      /\ UNCHANGED <<users, sessions, held>>
       /\ \A u \in Users :
             \A i \in DOMAIN users[u].mfaBackupCodes \cap DOMAIN users'[u].mfaBackupCodes :
                (/\ users[u].mfaBackupCodes[i].used
                 /\ users'[u].mfaBackupCodes[i].code = users[u].mfaBackupCodes[i].code)
                => users'[u].mfaBackupCodes[i].used]_vars

\* the session of a row is idle-expired: more than 15 minutes since last activity
C9_IdleExpired(s) == Later(Clock, Shift(s.lastActivity, idleTimeout))
\* the session of a row is past its absolute expiry
C9_PastExpiry(s) == Later(Clock, s.expiresAt)

\* C9: protect admits a request only if a row is stored for the presented token
\* and the identity the token names, and the row is neither idle-expired nor past
\* its absolute expiry; a token with no such row, and a token whose row is
\* expired, are answered 401 with the session cookie cleared; and an expired row
\* that protect finds (the token itself still within its 8 hours) is deleted by
\* that request.
C9_ProtectValidates ==
    [][\A tok \in Presentable :
          (resp'.op = "protect" /\ resp'.cred = tok /\ vars' # vars)
          => LET rows == {s \in sessions : s.token = tok /\ s.userId = tok.id} IN
             /\ resp'.status = 200
                => \E s \in rows : ~C9_IdleExpired(s) /\ ~C9_PastExpiry(s)
             /\ rows = {}
                => resp'.status = 401 /\ resp'.cleared /\ sessions' = sessions
             /\ (\E s \in rows : C9_IdleExpired(s) \/ C9_PastExpiry(s))
                => resp'.status = 401 /\ resp'.cleared
             /\ (/\ Later(Shift(tok.iat, maxSession), Clock)
                 /\ \E s \in rows : C9_IdleExpired(s) \/ C9_PastExpiry(s))
                => sessions' = sessions \ rows]_vars

\* an idle-expired session was presented, refused with the cookie cleared, and
\* its row is gone
C9_Witness ==
    /\ resp.op = "protect" /\ resp.status = 401 /\ resp.cleared
    /\ resp.arg = "expired"
    /\ resp.cred \in held
    /\ FindSession(sessions, resp.cred) = {}

\* C10: protect admits no session 8 hours or more after its creation; an admitted
\* request changes the session's lastActivity and nothing else in the store; no
\* step changes the createdAt or the expiresAt of a stored session; and a stored
\* session of an active identity whose last activity is at most 15 minutes old
\* and whose absolute expiry is still ahead is admitted.
C10_AbsoluteTimeout ==
    [][/\ \A tok \in Presentable :
             (resp'.op = "protect" /\ resp'.cred = tok /\ vars' # vars)
             => LET rows == FindSession(sessions, tok) IN
                /\ resp'.status = 200
                   => /\ \E s \in rows : Later(Shift(s.createdAt, maxSession), Clock)
                      /\ sessions' = (sessions \ rows)
                                       \cup {[s EXCEPT !.lastActivity = Clock] : s \in rows}
                /\ (/\ \E s \in rows : /\ ~Later(Clock, Shift(s.lastActivity, idleTimeout))
                                       /\ Later(s.expiresAt, Clock)
                    /\ users[tok.id].isActive)
                   => resp'.status = 200
       /\ \A s \in sessions : \A t \in sessions' :
             t.token = s.token
             => t.expiresAt = s.expiresAt /\ t.createdAt = s.createdAt]_vars

\* a session kept alive was admitted in the last 5 minutes of its 8 hours
C10_Witness ==
    /\ resp.op = "protect" /\ resp.status = 200
    /\ \E s \in FindSession(sessions, resp.cred) :
          /\ Clock = Shift(s.createdAt, maxSession - 1)
          /\ s.lastActivity = Clock
          /\ s.expiresAt = Shift(s.createdAt, maxSession)

\* C11: every logout is answered 200 with the cookie cleared; it deletes the rows
\* stored for the presented token, at most one, and nothing else; a logout whose
\* token has no row (a repeated logout, an unknown token, no token) leaves the
\* session store as it was; after the step the token has no row, so protect
\* refuses it; identities and issued tokens are untouched.
C11_LogoutIdempotent ==
    [][\A tok \in LogoutTokens :
          (resp'.op = "logout" /\ resp'.cred = tok /\ vars' # vars)
          => /\ resp'.status = 200 /\ resp'.cleared
             /\ sessions' = {s \in sessions : s.token # tok}
             /\ Cardinality(sessions \ sessions') <= 1
             /\ (\A s \in sessions : s.token # tok) => sessions' = sessions
             /\ FindSession(sessions', tok) = {}
             /\ UNCHANGED <<users, held, tempToken>>]_vars

\* a session token that was handed out has been logged out, other sessions of the
\* identity staying stored
C11_Witness ==
    /\ resp.op = "logout" /\ resp.status = 200
    /\ resp.cred \in held
    /\ FindSession(sessions, resp.cred) = {}
    /\ \E s \in sessions : s.userId = resp.cred.id

\* the step just taken is a request from address ip
C12_RequestFrom(ip) == resp'.ip = ip /\ vars' # vars

\* ip has made n login attempts in its current 15-minute window
C12_AttemptsInWindow(ip, n) ==
    /\ ipGuard.hits[ip].count = n
    /\ Later(ipGuard.hits[ip].resetAt, Clock)

\* ip has an entry in blockedIPs that has not run out
C12_UnderBlock(G, ip) ==
    G.blocked[ip] # Never /\ (G.blocked[ip] = NaN \/ Later(G.blocked[ip], Clock))

\* C12: with threshold 10, the login attempt of an address that follows 10 attempts
\* in its 15-minute window is answered 429 and places the address under a block;
\* and every request from an address under a block is answered 429, whatever it
\* targets and whatever its credentials.
C12_IpGate ==
    [][\A ip \in IPs :
          /\ (/\ C12_RequestFrom(ip) /\ resp'.op = "login"
              /\ ~C12_UnderBlock(ipGuard, ip)
              /\ C12_AttemptsInWindow(ip, 10))
             => /\ resp'.status = 429
                /\ isIPBlocked(ipGuard', ip)
          /\ (C12_RequestFrom(ip) /\ C12_UnderBlock(ipGuard, ip))
             => resp'.status = 429]_vars

C14_NoEnumeration ==
    [][\A u \in Users :
          (/\ Handled("login", u)
           /\ resp'.status # 429
           /\ resp'.arg = FALSE
           /\ ~IsLocked(users[u]) /\ users[u].isActive
           /\ users[u].count < MAX_ATTEMPTS)
          => /\ resp'.status = 401
             /\ resp'.body = unknownEmailBody]_vars

\* the two handlers that answer an MFA challenge
ChallengeOps == {"verifyMFA", "useBackupCode"}

\* C15: a challenge token that a successful verifyMFA or useBackupCode accepted is
\* rejected when presented again, and no further session is created for it
C15_ChallengeSingleUse ==
    [][(/\ resp'.op \in ChallengeOps
        /\ vars' # vars
        /\ resp'.cred.type = "mfa_pending"
        /\ resp'.cred \in accepted)
       => (resp'.status # 200 /\ sessions' = sessions /\ held' = held)]_vars

\* C16: verifyMFA and useBackupCode reject a JWT that is not a challenge token, and
\* protect never admits a challenge token
C16_TokensNotInterchangeable ==
    [][/\ (/\ resp'.op \in ChallengeOps
           /\ vars' # vars
           /\ resp'.cred.type # "mfa_pending")
          => (resp'.status # 200 /\ sessions' = sessions /\ held' = held)
       /\ (/\ resp'.op = "protect"
           /\ vars' # vars
           /\ resp'.cred.type = "mfa_pending")
          => resp'.status # 200]_vars

\* C17: when the reset-code e-mail fails, forgotPassword answers an error with the
\* reset code and its expiry cleared and the password hash and lockout fields as
\* they were; and with the reset code cleared verifyResetCode fails for every code
C17_ForgotPasswordRollback ==
    [][\A u \in Users :
          /\ (Handled("forgotPassword", u) /\ users[u].isActive /\ resp'.arg = "failed")
                => /\ resp'.status = 500
                   /\ users'[u].passwordResetCode = NoHash
                   /\ users'[u].passwordResetExpires = Never
                   /\ users'[u].password = users[u].password
                   /\ users'[u].count = users[u].count
                   /\ users'[u].lastAttempt = users[u].lastAttempt
                   /\ users'[u].lockedUntil = users[u].lockedUntil
          /\ (Handled("verifyResetCode", u) /\ users[u].passwordResetCode = NoHash)
                => (resp'.status = 400 /\ users' = users)]_vars

\* a failed e-mail answered for an identity with failed logins on record
C17_Witness ==
    /\ resp.op = "forgotPassword"
    /\ resp.status = 500
    /\ resp.arg = "failed"
    /\ users["u1"].passwordResetCode = NoHash
    /\ users["u1"].count > 0

\* the three mutations that send a confirmation e-mail, once committed
C18_Committed ==
    \/ /\ resp'.op = "verifySetup"
       /\ ~users[resp'.user].mfaEnabled
       /\ users'[resp'.user].mfaEnabled
    \/ /\ resp'.op = "disableMFA"
       /\ users[resp'.user].mfaEnabled
       /\ ~users'[resp'.user].mfaEnabled
    \/ /\ resp'.op = "resetPassword"
       /\ resp'.user \in Users
       /\ users'[resp'.user].password # users[resp'.user].password

\* C18: completing MFA setup, disabling MFA and resetting a password report success
\* once the mutation is committed, whatever the confirmation e-mail call does, and
\* MFA setup returns the backup codes
C18_NotifyNeverBlocks ==
    [][C18_Committed
       => /\ resp'.status = 200
          /\ resp'.op = "verifySetup" => resp'.body = <<"backupCodes", codeSets'>>]_vars

\* C19: createAuditLog never raises, and returns null for a request without a user
\* and for a store error; updateProfile commits the new name and answers the same
\* success whether the audit record was saved or not
C19_AuditContained ==
    [][/\ \A hasActor \in BOOLEAN, store \in StoreOutcomes :
             /\ createAuditLog(hasActor, store) # "throw"
             /\ (~hasActor \/ store = "error") => createAuditLog(hasActor, store) = "null"
       /\ \A u \in Users :
             Handled("updateProfile", u)
                => /\ resp'.status = 200
                   /\ users'[u].name = resp'.body[2]
                   /\ resp'.arg = "error" => auditLog' = auditLog
                   /\ resp'.arg = "saved" => Len(auditLog') = Len(auditLog) + 1]_vars

\* a profile change answered with success although the audit store failed
C19_Witness ==
    /\ resp.op = "updateProfile"
    /\ resp.status = 200
    /\ resp.arg = "error"
    /\ users["u1"].name = resp.body[2]
    /\ Len(auditLog) = 1

\* the typed code is one of the codes stored for identity u
C20_Stored(u, typed) ==
    \E i \in 1..Len(users[u].mfaBackupCodes) :
       backupMatches(typed, users[u].mfaBackupCodes[i])

\* C20: regenerateBackupCodes succeeds only with the correct password and leaves
\* exactly the 10 new codes, all unused; a redemption marks a code used only when
\* the code it presents is one of the set stored at that moment, never one of a
\* set that a regeneration has replaced; and a redemption is answered with a
\* session only after it marked its code
C20_RegenerationAtomic ==
    [][\A u \in Users :
          /\ (Handled("regenerateBackupCodes", u) /\ resp'.status = 200)
                => /\ resp'.arg = TRUE
                   /\ users'[u].mfaBackupCodes = generateBackupCodes(codeSets')
                   /\ codeSets' = codeSets + 1
                   /\ Len(users'[u].mfaBackupCodes) = backupCodeCount
                   /\ \A i \in 1..backupCodeCount, j \in 1..Len(users[u].mfaBackupCodes) :
                         users'[u].mfaBackupCodes[i].code # users[u].mfaBackupCodes[j].code
          /\ (Handled("regenerateBackupCodes", u) /\ resp'.status # 200)
                => (users' = users /\ codeSets' = codeSets)
          /\ (Handled("useBackupCode", u) /\ users' # users)
                => C20_Stored(u, resp'.arg)
          /\ (Handled("useBackupCode", u) /\ (resp'.status = 200 \/ sessions' # sessions))
                => \E w \in Workers :
                      /\ inflight[w].pc = "session"
                      /\ inflight'[w].pc = "idle"
                      /\ inflight[w].typed = resp'.arg]_vars

\* a redemption that loaded the codes before a regeneration and is refused at its
\* save after it
C20_Witness ==
    /\ resp.op = "useBackupCode"
    /\ resp.status = 500
    /\ resp.body = "VersionError"
    /\ resp.arg[1] < codeSets

\* disableMFA with the correct password clears the secret, the backup codes and
\* the enabled flag, and with a wrong password answers an error and changes
\* nothing; an identity with MFA disabled is refused by verifyMFA and useBackupCode
C21_DisableClears(u) ==
    /\ (Handled("disableMFA", u) /\ users[u].mfaEnabled /\ resp'.arg = TRUE)
          => /\ ~users'[u].mfaEnabled
             /\ users'[u].mfaSecret = 0
             /\ users'[u].mfaBackupCodes = <<>>
    /\ (Handled("disableMFA", u) /\ resp'.arg = FALSE)
          => (resp'.status \in {400, 401} /\ users' = users)
    /\ (resp'.op \in ChallengeOps /\ resp'.user = u /\ vars' # vars /\ ~users[u].mfaEnabled)
          => (resp'.status # 200 /\ UNCHANGED <<users, sessions, held>>)

\* C21: disableMFA requires the current password and clears the secret, the backup
\* codes and the enabled flag, no earlier code being accepted afterwards; and the
\* login with the correct password of an identity whose MFA was disabled is
\* answered with a session
C21_DisableMFA ==
    [][\A u \in Users :
          /\ C21_DisableClears(u)
          /\ (/\ Handled("login", u)
              /\ resp'.arg = TRUE
              /\ ~users[u].mfaEnabled
              /\ users[u].version > 0
              /\ users[u].isActive
              /\ ~IsLocked(users[u]))
                => /\ resp'.status = 200
                   /\ resp'.token = generateToken(u)
                   /\ NewRow(u) \in sessions']_vars

\* the tokens of the rows of S
C22_Tokens(S) == {s.token : s \in S}

\* the rows of S that identity u does not own
C22_Others(S, u) == {s \in S : s.userId # u}

C23_Violated(pw) ==
    {t \in {"minLength", "maxLength", "uppercase", "lowercase", "number", "symbol", "weak"} :
        \/ t = "minLength" /\ pw.len < 12
        \/ t = "maxLength" /\ pw.len > 128
        \/ t = "uppercase" /\ ~pw.upper
        \/ t = "lowercase" /\ ~pw.lower
        \/ t = "number" /\ ~pw.digit
        \/ t = "symbol" /\ ~pw.symbol
        \/ t = "weak" /\ pw.weak}

\* C23: a password is reported valid exactly when its length is in [12,128], it has
\* an uppercase letter, a lowercase letter, a digit and a symbol, and no weak
\* pattern matches; and the errors reported are exactly the violated rules, each
\* once, so a 7-character password always carries the length violation
C23_PasswordValidity ==
    (resp.op = "validatePassword" /\ resp.status = 200)
    => /\ resp.body.isValid <=> (/\ resp.arg.len >= 12 /\ resp.arg.len <= 128
                                  /\ resp.arg.upper /\ resp.arg.lower
                                  /\ resp.arg.digit /\ resp.arg.symbol
                                  /\ ~resp.arg.weak)
       /\ {resp.body.errors[i] : i \in 1..Len(resp.body.errors)} = C23_Violated(resp.arg)
       /\ Len(resp.body.errors) = Cardinality(C23_Violated(resp.arg))
       /\ resp.arg.len = 7 => \E i \in 1..Len(resp.body.errors) :
                                  resp.body.errors[i] = "minLength"

\* a 7-character password without digit and symbol evaluated: three violations
C23_Witness ==
    /\ resp.op = "validatePassword"
    /\ resp.status = 200
    /\ resp.arg.len = 7
    /\ ~resp.arg.digit /\ ~resp.arg.symbol /\ resp.arg.upper /\ resp.arg.lower
    /\ Len(resp.body.errors) = 3

\* twice the sum the claim gives: 1 for each of digit, uppercase and symbol, 0.5 for
\* lowercase, 0.5 for length 16 or more, minus 1 but not below 0 for a weak pattern
C24_Claimed2(pw) ==
    LET sum == (IF pw.digit THEN 2 ELSE 0) + (IF pw.upper THEN 2 ELSE 0)
               + (IF pw.symbol THEN 2 ELSE 0) + (IF pw.lower THEN 1 ELSE 0)
               + (IF pw.len >= 16 THEN 1 ELSE 0)
    IN IF pw.weak THEN (IF sum - 2 > 0 THEN sum - 2 ELSE 0) ELSE sum

\* that sum floored and clamped to [0,4]
C24_Clamp(half) ==
    IF half \div 2 > 4 THEN 4 ELSE IF half \div 2 < 0 THEN 0 ELSE half \div 2

\* C24: the strength score of every password is the floor, clamped to [0,4], of
\* the sum of 1 for each of digit, uppercase and symbol, 0.5 for lowercase, 0.5
\* for length 16 or more, minus 1 (not below 0) for a weak pattern
C24_StrengthScore ==
    (resp.op = "validatePassword" /\ resp.status = 200)
    => resp.body.strength = C24_Clamp(C24_Claimed2(resp.arg))

\* twice the sum as amended: the claim's sum with 1 more for a length of at least 12
C24_Amended2(pw) ==
    LET sum == (IF pw.len >= 12 THEN 2 ELSE 0)
               + (IF pw.digit THEN 2 ELSE 0) + (IF pw.upper THEN 2 ELSE 0)
               + (IF pw.symbol THEN 2 ELSE 0) + (IF pw.lower THEN 1 ELSE 0)
               + (IF pw.len >= 16 THEN 1 ELSE 0)
    IN IF pw.weak THEN (IF sum - 2 > 0 THEN sum - 2 ELSE 0) ELSE sum

\* C24 as amended: the score is the floor, clamped to [0,4], of 1 for a length of
\* at least 12, 1 for each of digit, uppercase and symbol, 0.5 for lowercase, 0.5
\* for length 16 or more, minus 1 (not below 0) for a weak pattern; a 16-character
\* password with all classes and no weak pattern scores 4
C24_StrengthScoreAmended ==
    (resp.op = "validatePassword" /\ resp.status = 200)
    => /\ resp.body.strength = C24_Clamp(C24_Amended2(resp.arg))
       /\ (/\ resp.arg.len = 16 /\ resp.arg.upper /\ resp.arg.lower /\ resp.arg.digit
           /\ resp.arg.symbol /\ ~resp.arg.weak) => resp.body.strength = 4

\* a 12-character password of digits only, no weak pattern: score 2
C24_Witness ==
    /\ resp.op = "validatePassword"
    /\ resp.status = 200
    /\ resp.arg.len = 12
    /\ resp.arg.digit /\ ~resp.arg.upper /\ ~resp.arg.lower /\ ~resp.arg.symbol
    /\ ~resp.arg.weak
    /\ resp.body.strength = 2
\* the advisory of a successful login: the expired flag exactly when the expiry
\* date is not in the future, the warning exactly when it is in the future and at
\* most warningDays away, never both
C25_Advisory(u) ==
    LET e == users[u].passwordExpiresAt IN
    (Handled("login", u) /\ resp'.arg = TRUE /\ ~users[u].mfaEnabled /\ resp'.status = 200)
        => /\ resp'.body.passwordExpired <=> (e # Never /\ ~Later(e, Clock))
           /\ (resp'.body.passwordExpiryWarning > 0)
                 <=> (/\ e # Never
                      /\ Later(e, Clock)
                      /\ ~Later(e, Shift(Clock, warningDays * slotsPerDay)))
           /\ ~(resp'.body.passwordExpired /\ resp'.body.passwordExpiryWarning > 0)

\* C25: for an identity with MFA disabled, a login with the correct password
\* creates a session whether or not the password has expired; the response carries
\* the expired flag when it has expired, the warning when it expires within 14
\* days, and never both
C25_ExpiryAdvisory ==
    [][\A u \in Users :
          /\ C25_Advisory(u)
          /\ (/\ Handled("login", u)
              /\ resp'.arg = TRUE
              /\ ~users[u].mfaEnabled
              /\ users[u].isActive
              /\ ~IsLocked(users[u]))
                => /\ resp'.status = 200
                   /\ resp'.token = generateToken(u)
                   /\ NewRow(u) \in sessions']_vars
\* the MFA state of an identity: Enabled by the flag, PendingSetup by a stored
\* secret without the flag
C26_MfaState(usr) ==
    IF usr.mfaEnabled THEN "Enabled"
    ELSE IF usr.mfaSecret # 0 THEN "PendingSetup" ELSE "Disabled"

\* the MFA state changes only along the three edges, and setupMFA is rejected in
\* Enabled without touching the secret
C26_Edges(u) ==
    LET before == C26_MfaState(users[u])
        after == C26_MfaState(users'[u])
    IN /\ before # after
            => \/ /\ before = "Disabled" /\ after = "PendingSetup"
                  /\ Handled("setupMFA", u)
               \/ /\ before = "PendingSetup" /\ after = "Enabled"
                  /\ Handled("verifySetup", u)
                  /\ totpVerify(users[u], resp'.arg)
               \/ /\ before = "Enabled" /\ after = "Disabled"
                  /\ Handled("disableMFA", u)
                  /\ resp'.arg = TRUE
       /\ (Handled("setupMFA", u) /\ before = "Enabled")
            => (resp'.status = 400 /\ users' = users)

\* C26: an identity's MFA state changes only along Disabled -> PendingSetup
\* (setupMFA), PendingSetup -> Enabled (verifySetup with a valid code) and
\* Enabled -> Disabled (disableMFA with the correct password); setupMFA is rejected
\* in Enabled and never overwrites an enabled secret; verifySetup has an effect only
\* in PendingSetup: in Enabled it neither succeeds nor replaces the backup codes
C26_MfaStateMachine ==
    [][\A u \in Users :
          /\ C26_Edges(u)
          /\ (Handled("verifySetup", u) /\ C26_MfaState(users[u]) # "PendingSetup")
                => /\ resp'.status # 200
                   /\ users'[u] = users[u]]_vars
\* a login for u that reached the password comparison
C27_Verified(u, pwOk) ==
    /\ Handled("login", u)
    /\ resp'.arg = pwOk
    /\ users[u].isActive
    /\ ~IsLocked(users[u])

\* C27: a failed attempt on an identity whose lock has elapsed sets the counter to
\* 1 and clears the lock; any other failed attempt adds exactly 1 to the counter
\* and sets lock-until to now + 30 minutes exactly when the new count is at least
\* 5; a successful password verification sets the counter to 0, clears the lock
\* and stamps last-login
C27_FailureCounter ==
    [][\A u \in Users :
          LET usr == users[u]
              new == users'[u]
          IN /\ C27_Verified(u, FALSE)
                  => IF usr.lockedUntil # Never /\ Later(Clock, usr.lockedUntil)
                     THEN new.count = 1 /\ new.lockedUntil = Never
                     ELSE /\ new.count = usr.count + 1
                          /\ new.count >= 5 => new.lockedUntil = Shift(Clock, 6)
                          /\ new.count < 5 => new.lockedUntil = usr.lockedUntil
             /\ C27_Verified(u, TRUE)
                  => /\ new.count = 0
                     /\ new.lockedUntil = Never
                     /\ new.lastLogin = Clock]_vars

\* the fifth failure has just set the lock, 30 minutes ahead
C27_Witness ==
    /\ resp.op = "login" /\ resp.status = 401 /\ resp.arg = FALSE
    /\ users["u1"].count = 5
    /\ users["u1"].lastAttempt = Clock
    /\ users["u1"].lockedUntil = Shift(Clock, 6)
\* the window count of ip changes only at a login request from ip that passed the
\* block check, by one increment while the window is open and by a restart at 1
\* once it has elapsed, whatever the answer to the request
C28_Window(ip) ==
    LET h == ipGuard.hits[ip]
        open == h.count > 0 /\ Later(h.resetAt, Clock)
        counted == /\ C12_RequestFrom(ip) /\ resp'.op = "login"
                   /\ ~isIPBlocked(ipGuard, ip)
    IN /\ ipGuard'.hits[ip] # h => counted
       /\ counted
            => ipGuard'.hits[ip] =
                  IF open THEN [h EXCEPT !.count = @ + 1]
                  ELSE [count |-> 1, resetAt |-> Shift(Clock, loginWindow)]

\* C28: the per-IP login window count changes only by one increment per login
\* request and by reset when the 15-minute window elapses, a successful login
\* never resetting or decreasing it; and an address under a block is rejected
\* whatever the state of its window count
C28_WindowAndBlock ==
    [][\A ip \in IPs :
          /\ C28_Window(ip)
          /\ (C12_RequestFrom(ip) /\ C12_UnderBlock(ipGuard, ip))
                => resp'.status = 429]_vars
\* a step that committed a security-relevant mutation for identity u: its password
\* changed, its lock was set or cleared, its MFA was enabled or disabled, or one of
\* its sessions was revoked by revokeSession or revokeAllSessions
C29_Mutation(u) ==
    \/ users'[u].password # users[u].password
    \/ users'[u].lockedUntil # users[u].lockedUntil
    \/ users'[u].mfaEnabled # users[u].mfaEnabled
    \/ /\ resp'.op \in {"revokeSession", "revokeAllSessions"}
       /\ resp'.user = u
       /\ \E s \in sessions : s.userId = u /\ s.token \notin C22_Tokens(sessions')

\* the step called createAuditLog: a record was appended, or the store's failure
\* was caught
C29_Attempted ==
    \/ Len(auditLog') = Len(auditLog) + 1
    \/ resp'.op = "updateProfile" /\ resp'.arg = "error"

\* C29: every successful security-relevant mutation made through the auth core
\* (password change or reset, account lock or unlock, MFA enable or disable,
\* session revocation) is followed by a call that attempts to record an audit
\* entry for it
C29_AuditCoverage ==
    [][\A u \in Users : C29_Mutation(u) => C29_Attempted]_vars
\* C30: after deleteAccount succeeds, no session row owned by the deleted identity
\* remains in the store, and the session rows of every other identity are unchanged
C30_DeleteAccountSessions ==
    [][\A u \in Users :
          (Handled("deleteAccount", u) /\ resp'.status = 200)
             => /\ \A s \in sessions' : s.userId # u
                /\ C22_Others(sessions', u) = C22_Others(sessions, u)]_vars
\* no two stored sessions share a token
C31_StoredDistinct(S) == \A s, t \in S : s.token = t.token => s = t

\* C31: every session creation produces a token different from the token of every
\* session created before, also within the same clock second for the same
\* identity, and no two stored sessions share a token
C31_TokensUnique ==
    [][/\ C31_StoredDistinct(sessions')
       /\ \A u \in Users :
             (/\ Handled("login", u)
              /\ resp'.arg = TRUE
              /\ users[u].exists /\ users[u].isActive
              /\ ~IsLocked(users[u])
              /\ ~mfaRequired(users[u]))
                => /\ generateToken(u) \notin held
                   /\ resp'.status = 200]_vars
\* the sessions granted by redemptions: every token handed out but the one of the
\* session the identity starts with
C32_Granted == {t \in held : t.iat # <<0, 0>>}

\* the stored backup codes of u that are marked used
C32_Used(u) ==
    {i \in 1..Len(users[u].mfaBackupCodes) : users[u].mfaBackupCodes[i].used}

\* C32: for every interleaving of redemptions of backup codes of one identity, two
\* requests that present the same unused code are not both granted a session: the
\* sessions granted never outnumber the codes marked used
C32_SingleUseUnderOverlap ==
    Cardinality(C32_Granted) <= Cardinality(C32_Used("u1"))
\* C33: at every instant, the exact instants at which the idle window or the
\* absolute expiry is reached included, a stored session is counted by
\* getActiveSessionCount if and only if isExpired reports it not expired
C33_CountAgreesWithValidation ==
    \A s \in sessions : (s \in ActiveRows(sessions, s.userId)) <=> ~isExpired(s)
\* C34: a login whose createSession fails to insert the new session has evicted no
\* session of the identity: the session store is as it was before the call
C34_AdmissionAllOrNothing ==
    [][\A u \in Users :
          (/\ Handled("login", u)
           /\ resp'.status = 500
           /\ ~createSessionOk(sessions, u))
             => sessions' = sessions]_vars
\* C35: resetPassword changes the password only when presented with a reset token
\* that a successful verifyResetCode issued; the e-mailed code presented as the
\* reset token, verifyResetCode not having succeeded, is rejected
C35_ResetOrdering ==
    [][\A u \in Users :
          (Handled("resetPassword", u) /\ users'[u].password # users[u].password)
             => /\ resp'.arg[1] = "token"
                /\ users[u].passwordResetCode = bcryptHash(<<"token", resp'.arg[2]>>)]_vars
\* a verifyMFA or useBackupCode request of u that reached the code comparison and
\* failed it: the challenge token verifies, MFA is enabled, and the one-time code
\* is wrong or the backup code matches no unused stored code
C36_WrongCode(u) ==
    /\ resp'.user = u
    /\ resp'.op \in {"verifyMFA", "useBackupCode"}
    /\ vars' # vars
    /\ resp'.cred.id = u
    /\ jwtVerify(resp'.cred)
    /\ users[u].mfaEnabled
    /\ \/ resp'.op = "verifyMFA" /\ ~totpVerify(users[u], resp'.arg)
       \/ /\ resp'.op = "useBackupCode"
          /\ \A i \in 1..Len(users[u].mfaBackupCodes) :
                \/ users[u].mfaBackupCodes[i].used
                \/ ~backupMatches(resp'.arg, users[u].mfaBackupCodes[i])

\* C36: a verifyMFA with a wrong one-time code, or a useBackupCode with a code
\* matching no unused backup code, is answered 401, creates no session, marks no
\* backup code used and leaves the failure counter and the lock unchanged,
\* whatever the counter and the lock are: the guesses against one challenge token
\* are not bounded by the lockout
C36_FailedMfaChangesNothing ==
    [][\A u \in Users :
          C36_WrongCode(u)
             => /\ resp'.status = 401
                /\ sessions' = sessions
                /\ held' = held
                /\ users' = users]_vars

\* a wrong one-time code presented with a challenge token that verifies was
\* refused
C36_Witness ==
    /\ resp.op = "verifyMFA"
    /\ resp.status = 401
    /\ resp.cred.type = "mfa_pending"
    /\ jwtVerify(resp.cred)
    /\ users[resp.user].mfaEnabled
    /\ ~totpVerify(users[resp.user], resp.arg)
\* the session rows of S with the last-activity stamp left out
C37_Rows(S) == {[userId |-> s.userId, token |-> s.token, createdAt |-> s.createdAt,
                 expiresAt |-> s.expiresAt] : s \in S}

\* C37: a successful changePassword or resetPassword creates no session and deletes
\* none, and every session of the identity that was valid before is valid after
C37_PasswordKeepsSessions ==
    [][\A u \in Users :
          (/\ resp'.op \in {"changePassword", "resetPassword"}
           /\ resp'.user = u
           /\ resp'.status = 200
           /\ users'[u].password # users[u].password)
             => /\ C37_Rows(sessions') = C37_Rows(sessions)
                /\ Cardinality(sessions') = Cardinality(sessions)
                /\ \A s \in sessions :
                      (s.userId = u /\ ~isExpired(s))
                         => \E t \in sessions' : t.token = s.token /\ ~isExpired(t)]_vars

\* a password was replaced while its identity had two valid sessions
C37_Witness ==
    /\ resp.op \in {"changePassword", "resetPassword"}
    /\ resp.status = 200
    /\ Cardinality({s \in sessions : s.userId = resp.user /\ ~isExpired(s)}) >= 2
\* C38: on every session-issuing path (password login, verifyMFA and useBackupCode
\* with a challenge token issued earlier, Google sign-in) no session is created
\* for an identity whose lock is active or which is deactivated at that moment
C38_NoSessionWhileLocked ==
    [][\A u \in Users :
          (\E s \in sessions' \ sessions : s.userId = u)
             => /\ ~IsLocked(users[u])
                /\ users[u].isActive]_vars
====
